---- MODULE Spec2Model ----
(***************************************************************************)
(* Model of the pocket-tts.cpp generation engine (src/src/pocket_tts.cpp): *)
(* PocketTTS::Impl::generate, PocketTTS::Impl::decodeLatents,              *)
(* PocketTTS::generateStreaming and PocketTTS::cancelStreaming.            *)
(*                                                                         *)
(* The ONNX units are external and opaque.  Their values are represented   *)
(* by the inputs that determine them: a latent frame by the context, the   *)
(* step, the previous latent and the noise it was integrated from; an      *)
(* audio sample by the frame it renders and the decoder state it was       *)
(* rendered from.  Two values are equal in the model exactly when a        *)
(* deterministic unit computed them from equal inputs.                     *)
(***************************************************************************)
EXTENDS Integers, Sequences, FiniteSets, TLC

VARIABLES
    config,           \* PocketTTSConfig of the instance: maxFrames, framesAfterEos, temperature,
                      \* lsdSteps, loadVoiceEncoder
    unit,             \* behaviour of the loaded flow_lm_main unit: first step whose stop-logit exceeds
    rng,              \* Impl::rng, as the number of noise vectors drawn so far
    voiceCache,       \* Impl::voiceCache: key -> embedding (NoEmbedding when absent)
    cancelRequested,  \* Impl::cancelRequested (std::atomic<bool>)
    pc,               \* position of the calling thread
    run,              \* locals of the running generateStreaming call, with its observed effects
    gen,              \* outcome of the generate call that has just returned
    prevGen,          \* outcome of an earlier generate call, kept for comparison
    fs,               \* the files the process can open: path -> WAV file (NoFile when absent)
    call,             \* the AudioUtils / API call made last: its arguments and its outcome
    hist              \* what earlier API calls were given and returned, kept for comparison

vars == <<config, unit, rng, voiceCache, cancelRequested, pc, run, gen, prevGen, fs, call, hist>>

----------------------------------------------------------------------------
(* Bounds of the model *)

MaxFrames == 17          \* config.maxFrames ranges over 0..MaxFrames
MaxFae == 1              \* config.framesAfterEos ranges over 0..MaxFae
MaxEos == 3              \* the stop-logit first exceeds at a step in 0..MaxEos, or never
MaxRng == 4              \* noise vectors a stochastic instance may draw in all
SamplesPerLatent == 1    \* samples the decode unit renders per latent frame

Texts == {"hi", "yo"}
VoicePaths == {"a.wav"}
ChunkSizes == {1, 5, 15, 17}
Temperatures == {0, 1}   \* 0, and 1 standing for any positive temperature
BlankTexts == {"", " \t\n\r"}

(* Program constants *)

EosThreshold == -4       \* eosLogit > -4.0f
DecodeBatch == 15        \* frames per decode invocation
LsdSteps == 2            \* config.lsdSteps (the header's default is 10)

NeverEos == MaxFrames + 1
NoEmbedding == <<>>
EmbeddingsKey == "__embeddings__"
TempVoicePath == "/tmp/pocket_tts_temp_voice.wav"
VoiceKeys == VoicePaths \cup {EmbeddingsKey, TempVoicePath}

Min(a, b) == IF a < b THEN a ELSE b

\* What an AudioUtils call comes to: a signal, an exception, or the end of the process.
Ok(samples) == [status |-> "ok", what |-> "", path |-> "", samples |-> samples]
Throw(what, path) == [status |-> "error", what |-> what, path |-> path, samples |-> <<>>]
Trap == [status |-> "trap", what |-> "", path |-> "", samples |-> <<>>]

----------------------------------------------------------------------------
(* The external units *)

\* mimi_encoder on the audio loaded from a voice file
VoiceEmbedding(audio) == <<"voice", audio>>

\* The characters of the texts handed to the engine
Chars(text) ==
    CASE text = "hi" -> <<"h", "i">>
      [] text = "yo" -> <<"y", "o">>
      [] text = "" -> <<>>
      [] text = " \t\n\r" -> <<" ", "\t", "\n", "\r">>

Whitespace == {" ", "\t", "\n", "\r"}
IsAlnum(c) == c \in {"h", "i", "y", "o", "H", "Y"}
ToUpper(c) == CASE c = "h" -> "H" [] c = "y" -> "Y" [] c = "i" -> "I" [] c = "o" -> "O"
                [] OTHER -> c

\* Faulty variant: the emptiness test dropped, a blank text tokenized to nothing.
encode_AcceptsBlank(text) ==
    [status |-> "ok", what |-> "", ids |-> <<"ids", Chars(text)>>]

\* Tokenizer::encode: trim, reject a text with nothing left, add the final
\* full stop, capitalize, then SentencePiece on the processed text.
encode(text) ==
    LET chars == Chars(text)
        kept == {i \in 1..Len(chars) : chars[i] \notin Whitespace}
    IN IF kept = {}
       THEN [status |-> "error", what |-> "Text cannot be empty", ids |-> <<>>]
       ELSE LET start == CHOOSE i \in kept : \A j \in kept : i <= j
                end == CHOOSE i \in kept : \A j \in kept : j <= i
                trimmed == SubSeq(chars, start, end)
                punctuated == IF IsAlnum(trimmed[Len(trimmed)])
                              THEN Append(trimmed, ".") ELSE trimmed
                processedText == [punctuated EXCEPT ![1] = ToUpper(@)]
            IN [status |-> "ok", what |-> "", ids |-> <<"ids", processedText>>]

\* text_conditioner on the token ids
runTextConditioner(tokenIds) == <<"text", tokenIds>>

\* std::vector<float> current(32, std::nanf(""))
NanLatent == [ctx |-> <<>>, n |-> -1, prev |-> -1, x0 |-> -1]

\* initState(*flowLmMain): one zero-filled tensor per state input
initLmState == [ctx |-> <<>>, n |-> 0, last |-> -1, calls |-> 0, inputs |-> <<>>]

\* Faulty variant: the decode state of a call starts as one that absorbed a frame.
initDecoderState_Used == [n |-> 1, last |-> NanLatent]

\* initState(*mimiDecoder)
initDecoderState == [n |-> 0, last |-> NanLatent]

\* The stop-logit flow_lm_main returns at its n-th autoregressive invocation.
StopLogit(n) ==
    IF n >= unit.eosAt THEN -3
    ELSE IF n % 2 = 0 THEN -5 ELSE -4

\* runFlowLmMainStep: feeds sequence, context and the state tensors, returns the
\* conditioning and the stop-logit, and replaces the state by the out_state outputs.
\* The state a unit returns is named by all it was fed: inputs lists the sequence
\* and the text_embeddings of every invocation so far.
runFlowLmMainStep(sequence, context, state) ==
    LET last == IF sequence = <<>> THEN state.last ELSE sequence[Len(sequence)].x0
        next == [ctx  |-> state.ctx \o context,
                 n    |-> state.n + Len(sequence),
                 last |-> last,
                 calls |-> state.calls + 1,
                 inputs |-> Append(state.inputs,
                                   [sequence |-> sequence, context |-> context])]
    IN [conditioning |-> [ctx |-> next.ctx, n |-> state.n, prev |-> last],
        eosLogit     |-> StopLogit(state.n),
        state        |-> next]

\* precomputeFlowBuffers: the pairs (s, t) = (j / lsdSteps, s + 1 / lsdSteps) of the
\* sub-steps j = 0..lsdSteps-1, each a fraction <<numerator, denominator>>
stBuffers ==
    [j \in 1..config.lsdSteps |-> [s |-> <<j - 1, config.lsdSteps>>,
                                   t |-> <<j, config.lsdSteps>>]]

\* runFlowLmFlow: the direction the flow unit returns, named by what it was fed
runFlowLmFlow(conditioning, s, t, x) == [c |-> conditioning, s |-> s, t |-> t, x |-> x]

\* The vector of the Euler loop before any sub-step: the noise, nothing added
FlowStart(x0) == [x0 |-> x0, subs |-> <<>>]

\* Faulty variant: the vector not advanced, every sub-step fed the noise.
RECURSIVE EulerFrom_NoAdvance(_, _, _)
EulerFrom_NoAdvance(conditioning, x, j) ==
    IF j > Len(stBuffers) THEN x
    ELSE LET flowOut == runFlowLmFlow(conditioning, stBuffers[j].s, stBuffers[j].t,
                                      FlowStart(x.x0))
         IN EulerFrom_NoAdvance(conditioning,
                                [x EXCEPT !.subs = Append(@, <<flowOut.s, flowOut.t>>),
                                          !.calls = Append(@, flowOut)],
                                j + 1)

\* The Euler loop over runFlowLmFlow: x advanced once per sub-step by the
\* direction of that sub-step times dt.  subs names the directions added so far,
\* calls lists the invocations of the flow unit.
RECURSIVE EulerFrom(_, _, _)
EulerFrom(conditioning, x, j) ==
    IF j > Len(stBuffers) THEN x
    ELSE LET flowOut == runFlowLmFlow(conditioning, stBuffers[j].s, stBuffers[j].t,
                                      [x0 |-> x.x0, subs |-> x.subs])
         IN EulerFrom(conditioning,
                      [x EXCEPT !.subs = Append(@, <<flowOut.s, flowOut.t>>),
                                !.calls = Append(@, flowOut)],
                      j + 1)

\* The invocations of the flow unit for one frame
FlowCallsOf(conditioning, x0) ==
    EulerFrom(conditioning, [x0 |-> x0, subs |-> <<>>, calls |-> <<>>], 1).calls

FlowIntegrate(conditioning, x0) ==
    LET x == EulerFrom(conditioning, [x0 |-> x0, subs |-> <<>>, calls |-> <<>>], 1)
    IN [ctx  |-> conditioning.ctx,
        n    |-> conditioning.n,
        prev |-> conditioning.prev,
        x0   |-> x.x0]

\* Faulty variant: the temperature test dropped, noise drawn for every frame.
DrawNoise_Always(r) == [x0 |-> r + 1, rng |-> r + 1]

\* The noise of one frame: zeros, or a draw from rng when temperature > 0.
DrawNoise(r) ==
    IF config.temperature > 0
    THEN [x0 |-> r + 1, rng |-> r + 1]
    ELSE [x0 |-> 0, rng |-> r]

\* One invocation of mimi_decoder on a group of frames with the given state:
\* the audio of each frame, rendered from the state the frames before it left.
RECURSIVE DecodeFrames(_, _, _)
DecodeFrames(frames, state, audio) ==
    IF frames = <<>> THEN [audio |-> audio, state |-> state]
    ELSE LET f == Head(frames)
             rendered == [i \in 1..SamplesPerLatent |-> [frame |-> f, from |-> state, i |-> i]]
         IN DecodeFrames(Tail(frames), [n |-> state.n + 1, last |-> f], audio \o rendered)

runMimiDecoder(frames, state) == DecodeFrames(frames, state, <<>>)

----------------------------------------------------------------------------
(* The statements generate and generateStreaming share *)

\* Faulty variant: the loop bound taken inclusive.
LoopContinues_Inclusive(step) == step <= config.maxFrames

\* for (int step = 0; step < config.maxFrames; ++step)
LoopContinues(step) == step < config.maxFrames

\* Faulty variant: the test of eosStep dropped, every exceeding step taken anew.
EosDetected_Reassigns(eosLogit, eosStep) == eosLogit > EosThreshold

\* Faulty variant: the threshold comparison dropped.
EosDetected_NoThreshold(eosLogit, eosStep) == eosStep < 0

\* if (eosLogit > -4.0f && eosStep < 0) eosStep = step;
EosDetected(eosLogit, eosStep) == eosLogit > EosThreshold /\ eosStep < 0

\* Faulty variant: the grace window one step longer.
StopAfterEos_Late(step, eosStep) == eosStep >= 0 /\ step > eosStep + config.framesAfterEos

\* if (eosStep >= 0 && step >= eosStep + config.framesAfterEos) break;
StopAfterEos(step, eosStep) == eosStep >= 0 /\ step >= eosStep + config.framesAfterEos

SubSeqFrom(s, i, n) == SubSeq(s, i + 1, i + n)

\* Faulty variant: the text conditioning pass run before the voice pass.
ConditioningPasses_TextFirst(voiceEmb, textEmb, state) ==
    runFlowLmMainStep(<<>>, <<voiceEmb>>,
                      runFlowLmMainStep(<<>>, <<textEmb>>, state).state)

\* The voice conditioning pass, then the text conditioning pass, both with an
\* empty sequence
ConditioningPasses(voiceEmb, textEmb, state) ==
    runFlowLmMainStep(<<>>, <<textEmb>>,
                      runFlowLmMainStep(<<>>, <<voiceEmb>>, state).state)

----------------------------------------------------------------------------
(* PocketTTS::Impl::decodeLatents *)

\* groups lists the invocations of the decode unit: the frames each was fed
\* (numFrames of them from position i on) and the state it was fed.
RECURSIVE DecodeLoop(_, _, _, _, _, _)
DecodeLoop(latents, i, state, audioChunks, calls, groups) ==
    IF i >= Len(latents)
    THEN [audio |-> audioChunks, decodeCalls |-> calls, groups |-> groups]
    ELSE LET end == Min(i + DecodeBatch, Len(latents))
             out == runMimiDecoder(SubSeqFrom(latents, i, end - i), state)
         IN DecodeLoop(latents, i + DecodeBatch, out.state,
                       audioChunks \o out.audio, calls + 1,
                       Append(groups, [i |-> i, numFrames |-> end - i, state |-> state]))

\* Faulty variant: all the frames handed to the decode unit in one invocation.
decodeLatents_OneCall(latents) ==
    IF latents = <<>> THEN [audio |-> <<>>, decodeCalls |-> 0, groups |-> <<>>]
    ELSE [audio |-> runMimiDecoder(latents, initDecoderState).audio,
          decodeCalls |-> 1,
          groups |-> <<[i |-> 0, numFrames |-> Len(latents), state |-> initDecoderState]>>]

decodeLatents(latents) ==
    IF latents = <<>> THEN [audio |-> <<>>, decodeCalls |-> 0, groups |-> <<>>]
    ELSE DecodeLoop(latents, 0, initDecoderState, <<>>, 0, <<>>)

----------------------------------------------------------------------------
(* PocketTTS::Impl::generate *)

\* Faulty variant: current never replaced, the sentinel fed at every step.
RECURSIVE GenerateLoop_StaleInput(_)
GenerateLoop_StaleInput(g) ==
    IF ~LoopContinues(g.step) THEN g
    ELSE LET m == runFlowLmMainStep(<<g.current>>, <<>>, g.lmState)
             eosStep == IF EosDetected(m.eosLogit, g.eosStep) THEN g.step ELSE g.eosStep
             afterMain == [g EXCEPT !.lmState = m.state, !.eosStep = eosStep,
                                    !.arSteps = @ + 1]
         IN IF StopAfterEos(g.step, eosStep) THEN afterMain
            ELSE LET noise == DrawNoise(g.rng)
                     x == FlowIntegrate(m.conditioning, noise.x0)
                 IN GenerateLoop_StaleInput([afterMain EXCEPT
                        !.rng = noise.rng,
                        !.allLatents = Append(@, x),
                        !.flowCalls = @ + Len(stBuffers),
                        !.flowTrace = Append(@, FlowCallsOf(m.conditioning, noise.x0)),
                        !.step = @ + 1])

RECURSIVE GenerateLoop(_)
GenerateLoop(g) ==
    IF ~LoopContinues(g.step) THEN g
    ELSE LET m == runFlowLmMainStep(<<g.current>>, <<>>, g.lmState)
             eosStep == IF EosDetected(m.eosLogit, g.eosStep) THEN g.step ELSE g.eosStep
             afterMain == [g EXCEPT !.lmState = m.state, !.eosStep = eosStep,
                                    !.arSteps = @ + 1]
         IN IF StopAfterEos(g.step, eosStep) THEN afterMain
            ELSE LET noise == DrawNoise(g.rng)
                     x == FlowIntegrate(m.conditioning, noise.x0)
                 IN GenerateLoop([afterMain EXCEPT
                        !.rng = noise.rng,
                        !.allLatents = Append(@, x),
                        !.current = x,
                        !.flowCalls = @ + Len(stBuffers),
                        !.flowTrace = Append(@, FlowCallsOf(m.conditioning, noise.x0)),
                        !.step = @ + 1])

\* generate from the voice embedding on: text conditioning, the two conditioning
\* passes, the autoregressive loop and decodeLatents.
GenerateRun(text, voiceEmb, r) ==
    LET textEmb == runTextConditioner(encode(text).ids)
        texted == ConditioningPasses(voiceEmb, textEmb, initLmState)
        g == GenerateLoop([step |-> 0, eosStep |-> -1, current |-> NanLatent,
                           lmState |-> texted.state, allLatents |-> <<>>, rng |-> r,
                           arSteps |-> 0, flowCalls |-> 0, flowTrace |-> <<>>])
        d == decodeLatents(g.allLatents)
    IN [text |-> text, voice |-> voiceEmb,
        latents |-> g.allLatents, audio |-> d.audio,
        eosStep |-> g.eosStep, rng |-> g.rng,
        mainCalls |-> g.lmState.calls, mainInputs |-> g.lmState.inputs,
        arSteps |-> g.arSteps,
        flowCalls |-> g.flowCalls, flowTrace |-> g.flowTrace,
        decodeCalls |-> d.decodeCalls, decodeGroups |-> d.groups,
        textConditionerCalls |-> 1,
        stateInits |-> IF g.allLatents = <<>> THEN 1 ELSE 2,
        status |-> "ok", what |-> ""]

NoGen == [text |-> "", voice |-> NoEmbedding, latents |-> <<>>, audio |-> <<>>,
          eosStep |-> -1, rng |-> 0, mainCalls |-> 0, mainInputs |-> <<>>, arSteps |-> 0,
          flowCalls |-> 0, flowTrace |-> <<>>, decodeCalls |-> 0, decodeGroups |-> <<>>,
          textConditionerCalls |-> 0, stateInits |-> 0,
          status |-> "ok", what |-> ""]

----------------------------------------------------------------------------
(* PocketTTS::generateStreaming *)

NoCancelSnapshot == [frames |-> -1, callbacks |-> -1, decodeCalls |-> -1, totalSamples |-> -1]

NoRun == [text |-> "", voice |-> NoEmbedding, chunkSizeFrames |-> 0,
          enableCancellation |-> FALSE,
          step |-> 0, eosStep |-> -1, pendingLatents |-> <<>>, current |-> NanLatent,
          totalSamples |-> 0, lmState |-> initLmState, decoderState |-> initDecoderState,
          frames |-> <<>>, callbacks |-> <<>>, rng0 |-> 0,
          arSteps |-> 0, flowCalls |-> 0, flowTrace |-> <<>>, decodeCalls |-> 0,
          cancelCalled |-> FALSE, arAfterCancel |-> 0,
          exit |-> "", atCancel |-> NoCancelSnapshot, ret |-> -1,
          textConditionerCalls |-> 0, stateInits |-> 0,
          status |-> "ok", what |-> ""]

\* The prologue: text conditioning, initState of both units, the two conditioning passes.
StreamStart(text, voiceEmb, chunkSizeFrames, enableCancellation, r) ==
    LET textEmb == runTextConditioner(encode(text).ids)
        texted == ConditioningPasses(voiceEmb, textEmb, initLmState)
    IN [NoRun EXCEPT !.text = text, !.voice = voiceEmb,
                     !.chunkSizeFrames = chunkSizeFrames,
                     !.enableCancellation = enableCancellation,
                     !.lmState = texted.state,
                     !.decoderState = initDecoderState,
                     !.rng0 = r,
                     !.textConditionerCalls = 1,
                     !.stateInits = 2]

\* Faulty variant: the flag looked at only when the pending buffer is empty.
CancelCheck_AtChunkBoundary(r, flag) ==
    r.enableCancellation /\ flag /\ r.pendingLatents = <<>>

\* if (streamConfig.enableCancellation && impl_->cancelRequested) break;
CancelCheck(r, flag) == r.enableCancellation /\ flag

\* The loop head: the for condition, then the cancellation check.
StreamLoopHead(r, flag) ==
    IF ~LoopContinues(r.step) THEN "max"
    ELSE IF CancelCheck(r, flag) THEN "cancel"
    ELSE "body"

\* The in-loop decode of the pending frames: 15-frame sub-batches, the decoder
\* state replaced after every invocation.
RECURSIVE StreamDecodeLoop(_, _, _, _, _)
StreamDecodeLoop(pending, i, state, chunkAudio, calls) ==
    IF i >= Len(pending) THEN [audio |-> chunkAudio, state |-> state, decodeCalls |-> calls]
    ELSE LET end == Min(i + DecodeBatch, Len(pending))
             out == runMimiDecoder(SubSeqFrom(pending, i, end - i), state)
         IN StreamDecodeLoop(pending, i + DecodeBatch, out.state,
                             chunkAudio \o out.audio, calls + 1)

\* Faulty variant: the chunk sent once the buffer exceeds chunkSizeFrames.
ChunkReady_Exceeds(r) ==
    \/ Len(r.pendingLatents) > r.chunkSizeFrames
    \/ StopAfterEos(r.step, r.eosStep)

\* if (pendingLatents.size() >= chunkSizeFrames || (eosStep >= 0 && step >= eosStep + framesAfterEos))
ChunkReady(r) ==
    \/ Len(r.pendingLatents) >= r.chunkSizeFrames
    \/ StopAfterEos(r.step, r.eosStep)

\* Decode the pending frames, call the callback, add to the total, clear the buffer.
StreamEmit(r) ==
    LET d == StreamDecodeLoop(r.pendingLatents, 0, r.decoderState, <<>>, 0)
        isFinal == StopAfterEos(r.step, r.eosStep)
    IN [r EXCEPT !.decoderState = d.state,
                 !.decodeCalls = @ + d.decodeCalls,
                 !.callbacks = Append(@, [samples |-> d.audio,
                                          sampleCount |-> Len(d.audio),
                                          isFinal |-> isFinal]),
                 !.totalSamples = @ + Len(d.audio),
                 !.pendingLatents = <<>>]

\* One iteration of the loop after the cancellation check.
StreamBody(r, rngIn) ==
    LET m == runFlowLmMainStep(<<r.current>>, <<>>, r.lmState)
        eosStep == IF EosDetected(m.eosLogit, r.eosStep) THEN r.step ELSE r.eosStep
        afterMain == [r EXCEPT !.lmState = m.state, !.eosStep = eosStep,
                               !.arSteps = @ + 1,
                               !.arAfterCancel = IF r.cancelCalled THEN Min(@ + 1, 2) ELSE @]
    IN IF StopAfterEos(r.step, eosStep)
       THEN [run |-> [afterMain EXCEPT !.exit = "eos"], rng |-> rngIn,
             brk |-> TRUE, delivered |-> FALSE]
       ELSE LET noise == DrawNoise(rngIn)
                x == FlowIntegrate(m.conditioning, noise.x0)
                pushed == [afterMain EXCEPT !.pendingLatents = Append(@, x),
                                            !.frames = Append(@, x),
                                            !.current = x,
                                            !.flowCalls = @ + Len(stBuffers),
                                            !.flowTrace =
                                                Append(@, FlowCallsOf(m.conditioning,
                                                                      noise.x0))]
                emitted == IF ChunkReady(pushed) THEN StreamEmit(pushed) ELSE pushed
            IN [run |-> [emitted EXCEPT !.step = @ + 1], rng |-> noise.rng,
                brk |-> FALSE, delivered |-> ChunkReady(pushed)]

\* The decode of the residual after the loop: 15-frame sub-batches, every one
\* fed decoderState as the loop left it (the state is not updated here).
RECURSIVE FlushDecodeLoop(_, _, _, _, _)
FlushDecodeLoop(pending, i, state, finalAudio, calls) ==
    IF i >= Len(pending) THEN [audio |-> finalAudio, decodeCalls |-> calls]
    ELSE LET end == Min(i + DecodeBatch, Len(pending))
             out == runMimiDecoder(SubSeqFrom(pending, i, end - i), state)
         IN FlushDecodeLoop(pending, i + DecodeBatch, state,
                            finalAudio \o out.audio, calls + 1)

\* Faulty variant: the residual flushed whatever the flag says.
FlushReady_IgnoresCancel(r, flag) == r.pendingLatents # <<>>

\* if (!pendingLatents.empty() && !impl_->cancelRequested)
FlushReady(r, flag) == r.pendingLatents # <<>> /\ ~flag

\* Faulty variant: the final chunk delivered but not added to the total.
StreamFlush_NoTotal(r, flag) ==
    IF r.pendingLatents # <<>> /\ ~flag
    THEN LET d == FlushDecodeLoop(r.pendingLatents, 0, r.decoderState, <<>>, 0)
         IN [r EXCEPT !.decodeCalls = @ + d.decodeCalls,
                      !.callbacks = Append(@, [samples |-> d.audio,
                                               sampleCount |-> Len(d.audio),
                                               isFinal |-> TRUE])]
    ELSE r

\* After the loop: decode and send any remaining latents, then return totalSamples.
StreamFlush(r, flag) ==
    IF FlushReady(r, flag)
    THEN LET d == FlushDecodeLoop(r.pendingLatents, 0, r.decoderState, <<>>, 0)
         IN [r EXCEPT !.decodeCalls = @ + d.decodeCalls,
                      !.callbacks = Append(@, [samples |-> d.audio,
                                               sampleCount |-> Len(d.audio),
                                               isFinal |-> TRUE]),
                      !.totalSamples = @ + Len(d.audio)]
    ELSE r

\* return totalSamples;
StreamResult(r) == [r EXCEPT !.ret = r.totalSamples]

----------------------------------------------------------------------------
(* float arithmetic of AudioUtils *)

\* A float is modelled with MantBits significant bits over Binades binades above
\* the subnormals, rounded to nearest, ties to even.  A value is the integer
\* number of subnormal steps it holds; One is 1.0f.
MantBits == 4
Binades == 3
MaxLen == 2              \* samples in a signal handed to AudioUtils

RECURSIVE Pow2(_)
Pow2(n) == IF n = 0 THEN 1 ELSE 2 * Pow2(n - 1)

MantLimit == Pow2(MantBits)
One == Pow2(MantBits + 1)
MaxMag == (MantLimit - 1) * Pow2(Binades - 1)

Abs(v) == IF v < 0 THEN -v ELSE v
Sign(v) == IF v < 0 THEN -1 ELSE 1

\* The spacing of the floats around the magnitude v
RECURSIVE Ulp(_)
Ulp(v) == IF v < MantLimit THEN 1 ELSE 2 * Ulp(v \div 2)

\* num / den (both >= 0, den > 0) rounded to the nearest float, ties to even
RoundMag(num, den) ==
    LET q == num \div den
        u == Ulp(q)
        lo == (q \div u) * u
        hi == lo + u
        d == 2 * num - (lo + hi) * den
        r == IF d < 0 THEN lo
             ELSE IF d > 0 THEN hi
             ELSE IF (lo \div u) % 2 = 0 THEN lo ELSE hi
    IN Min(r, MaxMag)

Round(num, den) == Sign(num) * RoundMag(Abs(num), den)

\* a * b and a / b in float arithmetic
FMul(a, b) == Round(a * b, One)
FDiv(a, b) == Round(a * One * Sign(b), Abs(b))

\* division of integers rounded up
CeilDiv(a, b) == -((-a) \div b)

----------------------------------------------------------------------------
(* AudioUtils: resample, stereoToMono, normalize *)

TARGET_SAMPLE_RATE == 24000
LANCZOS_A == 8

\* constexpr float TARGET_PEAK = 0.85f
TARGET_PEAK == RoundMag(85 * One, 100)

RECURSIVE Gcd(_, _)
Gcd(a, b) == IF b = 0 THEN a ELSE Gcd(b, a % b)

\* The taps of output sample i: the offsets j in jMin..jMax whose source index
\* center + j lies inside the input.  step and ratio are quotients of the two
\* rates, taken here in lowest terms (inRate / outRate).
ResampleTaps(inputLen, inputSampleRate, outputSampleRate, i) ==
    LET inRate == inputSampleRate \div Gcd(inputSampleRate, outputSampleRate)
        outRate == outputSampleRate \div Gcd(inputSampleRate, outputSampleRate)
        down == outRate < inRate
        \* windowRadius = LANCZOS_A / filterScale, as radNum / radDen
        radNum == IF down THEN LANCZOS_A * inRate ELSE LANCZOS_A
        radDen == IF down THEN outRate ELSE 1
        \* srcPos = i * step; center = floor(srcPos); fracOffset = fracNum / outRate
        center == (i * inRate) \div outRate
        fracNum == (i * inRate) % outRate
        jMin == CeilDiv(fracNum * radDen - radNum * outRate, radDen * outRate)
        jMax == (fracNum * radDen + radNum * outRate) \div (radDen * outRate)
    IN {j \in jMin..jMax : center + j >= 0 /\ center + j < inputLen}

\* The windowed-sinc sum of one output sample.  The kernel weights come from
\* std::sin, so the quotient sample / weightSum is given by interp; with no tap
\* the sample is 0.0f.
ResampleAt(input, inputSampleRate, outputSampleRate, i, interp) ==
    IF ResampleTaps(Len(input), inputSampleRate, outputSampleRate, i) = {}
    THEN 0
    ELSE interp[i + 1]

\* Faulty variant: the equal-rate shortcut dropped.
resample_NoShortcut(input, inputSampleRate, outputSampleRate, interp) ==
    IF input = <<>> THEN input
    ELSE LET outputSize == CeilDiv(Len(input) * outputSampleRate, inputSampleRate)
         IN [i \in 1..outputSize |->
                ResampleAt(input, inputSampleRate, outputSampleRate, i - 1, interp)]

\* AudioUtils::resample
resample(input, inputSampleRate, outputSampleRate, interp) ==
    IF inputSampleRate = outputSampleRate \/ input = <<>> THEN input
    ELSE LET outputSize == CeilDiv(Len(input) * outputSampleRate, inputSampleRate)
         IN [i \in 1..outputSize |->
                ResampleAt(input, inputSampleRate, outputSampleRate, i - 1, interp)]

\* AudioUtils::stereoToMono; its exception carries no file name
stereoToMono(stereoData) ==
    IF Len(stereoData) % 2 # 0
    THEN Throw("Stereo data must have even number of samples", "")
    ELSE Ok([i \in 1..(Len(stereoData) \div 2) |->
                Round(Round(stereoData[2 * i - 1] + stereoData[2 * i], 1), 2)])

RECURSIVE Peak(_)
Peak(audio) ==
    IF audio = <<>> THEN 0
    ELSE LET rest == Peak(Tail(audio))
         IN IF Abs(Head(audio)) > rest THEN Abs(Head(audio)) ELSE rest

\* AudioUtils::normalize
normalize(audio) ==
    IF audio = <<>> THEN audio
    ELSE LET maxVal == Peak(audio)
         IN IF maxVal <= TARGET_PEAK THEN audio
            ELSE LET gain == FDiv(TARGET_PEAK, maxVal)
                 IN [i \in 1..Len(audio) |-> FMul(audio[i], gain)]

----------------------------------------------------------------------------
(* AudioUtils: the WAV container, loadWav and saveWav *)

\* A file is its RIFF/WAVE header and its chunks in file order.  A chunk holds
\* the size its header declares and the bytes of its body that the file really
\* holds (fewer than declared only in the last chunk, where the file ends).
\* The body of a data chunk is given as the whole samples present in it, read
\* at the sample width of the fmt chunk.
NoFile == [magic |-> FALSE, chunks |-> <<>>, exists |-> FALSE]
NoFmt == [audioFormat |-> 0, numChannels |-> 0, sampleRate |-> 0, bitsPerSample |-> 0]

WavFmtChunkSize == 16    \* sizeof(WavFmtChunk)

FmtChunk(size, present, fmt) ==
    [id |-> "fmt ", size |-> size, present |-> present, fmt |-> fmt, samples |-> <<>>]
DataChunk(size, present, samples) ==
    [id |-> "data", size |-> size, present |-> present, fmt |-> NoFmt, samples |-> samples]
OtherChunk(size) ==
    [id |-> "LIST", size |-> size, present |-> size, fmt |-> NoFmt, samples |-> <<>>]
WavFile(chunks) == [magic |-> TRUE, chunks |-> chunks, exists |-> TRUE]

\* file.read into a zero-filled buffer of totalSamples elements: the samples
\* the file holds, then the zeros the buffer was created with.  The stream's
\* state is not looked at after the read.
ReadSamples(chunk, totalSamples) ==
    [i \in 1..totalSamples |-> IF i <= Len(chunk.samples) THEN chunk.samples[i] ELSE 0]

\* static_cast<float>(raw[i]) * scale, scale = 1 / 2^(bits - 1)
PcmToFloat(raw, bits) == [i \in 1..Len(raw) |-> Round(raw[i] * One, Pow2(bits - 1))]

Downmix(fmt, samples) ==
    IF fmt.numChannels = 1 THEN Ok(samples) ELSE stereoToMono(samples)

\* The body of the data branch once bytesPerSample is not zero.
DecodeData(chunk, fmt, filepath) ==
    LET bytesPerSample == fmt.bitsPerSample \div 8
        totalSamples == chunk.size \div bytesPerSample
    IN IF fmt.audioFormat = 3 /\ fmt.bitsPerSample = 32
       THEN Downmix(fmt, ReadSamples(chunk, totalSamples))
       ELSE IF fmt.audioFormat = 1 /\ fmt.bitsPerSample = 16
       THEN Downmix(fmt, PcmToFloat(ReadSamples(chunk, totalSamples), 16))
       ELSE IF fmt.audioFormat = 1 /\ fmt.bitsPerSample = 24
       THEN Downmix(fmt, PcmToFloat(ReadSamples(chunk, totalSamples), 24))
       ELSE Throw("Unsupported bit depth", filepath)

\* The data branch.  chunk.size / bytesPerSample with bytesPerSample = 0 is an
\* integer division by zero: the process is stopped by the trap, or the
\* division yields some count and the format test that follows rejects the file.
DataBranch(chunk, fmt, filepath, ub) ==
    IF fmt.bitsPerSample \div 8 = 0
    THEN IF ub = "trap" THEN Trap ELSE Throw("Unsupported bit depth", filepath)
    ELSE DecodeData(chunk, fmt, filepath)

\* The chunk scan: the outcome of the loop, with the fmt chunk read last.
RECURSIVE ScanChunks(_, _, _, _, _, _)
ScanChunks(chunks, i, fmt, fmtFound, filepath, ub) ==
    IF i > Len(chunks)
    THEN [out |-> Ok(<<>>), fmt |-> fmt, fmtFound |-> fmtFound]
    ELSE LET chunk == chunks[i]
         IN IF chunk.id = "fmt "
            THEN IF chunk.size < WavFmtChunkSize
                 THEN [out |-> Throw("Invalid fmt chunk", filepath),
                       fmt |-> fmt, fmtFound |-> fmtFound]
                 ELSE IF chunk.present < WavFmtChunkSize
                 THEN [out |-> Throw("Truncated fmt chunk", filepath),
                       fmt |-> fmt, fmtFound |-> fmtFound]
                 ELSE IF chunk.fmt.audioFormat # 1 /\ chunk.fmt.audioFormat # 3
                 THEN [out |-> Throw("Unsupported WAV format", filepath),
                       fmt |-> chunk.fmt, fmtFound |-> fmtFound]
                 ELSE IF chunk.fmt.numChannels < 1 \/ chunk.fmt.numChannels > 2
                 THEN [out |-> Throw("Unsupported channel count", filepath),
                       fmt |-> chunk.fmt, fmtFound |-> fmtFound]
                 ELSE ScanChunks(chunks, i + 1, chunk.fmt, TRUE, filepath, ub)
            ELSE IF chunk.id = "data"
            THEN IF ~fmtFound
                 THEN [out |-> Throw("data chunk before fmt chunk", filepath),
                       fmt |-> fmt, fmtFound |-> fmtFound]
                 ELSE [out |-> DataBranch(chunk, fmt, filepath, ub),
                       fmt |-> fmt, fmtFound |-> fmtFound]
            ELSE ScanChunks(chunks, i + 1, fmt, fmtFound, filepath, ub)

\* AudioUtils::loadWav
loadWav(file, filepath, targetSampleRate, ub, interp) ==
    IF ~file.exists THEN Throw("Failed to open audio file", filepath)
    ELSE IF ~file.magic THEN Throw("Not a valid WAV file", filepath)
    ELSE LET scan == ScanChunks(file.chunks, 1, NoFmt, FALSE, filepath, ub)
         IN IF scan.out.status # "ok" THEN scan.out
            ELSE IF scan.out.samples = <<>> THEN Throw("No audio data found", filepath)
            ELSE LET monoSamples ==
                         IF scan.fmtFound /\ scan.fmt.sampleRate # targetSampleRate
                         THEN resample(scan.out.samples, scan.fmt.sampleRate,
                                       targetSampleRate, interp)
                         ELSE scan.out.samples
                 IN Ok(normalize(monoSamples))

\* Faulty variant: the format tag of integer PCM written for float data.
saveWav_PcmTag(audioData, sampleRate) ==
    WavFile(<<FmtChunk(WavFmtChunkSize, WavFmtChunkSize,
                       [audioFormat |-> 1, numChannels |-> 1,
                        sampleRate |-> sampleRate, bitsPerSample |-> 32]),
              DataChunk(Len(audioData) * 4, Len(audioData) * 4, audioData)>>)

\* AudioUtils::saveWav: the file it writes
saveWav(audioData, sampleRate) ==
    WavFile(<<FmtChunk(WavFmtChunkSize, WavFmtChunkSize,
                       [audioFormat |-> 3, numChannels |-> 1,
                        sampleRate |-> sampleRate, bitsPerSample |-> 32]),
              DataChunk(Len(audioData) * 4, Len(audioData) * 4, audioData)>>)

\* The files of the process and the record of the last call
InPath == "in.wav"
OutPath == "out.wav"
FilePaths == VoiceKeys \cup {InPath, OutPath}
NoFiles == [p \in FilePaths |-> NoFile]

NoCall == [op |-> "none", x |-> <<>>, path |-> "", inRate |-> 0, outRate |-> 0,
           out |-> Ok(<<>>)]

\* The calls the environment chooses between
Rates == {TARGET_SAMPLE_RATE, 2 * TARGET_SAMPLE_RATE}
UbOutcomes == {"trap", "continue"}

\* The quotients the kernel sums of resample may come to
InterpValues == {One \div 2, (3 * One) \div 2}
Interps == {[i \in 1..(2 * MaxLen) |-> IF i % 2 = 1 THEN ab[1] ELSE ab[2]] :
               ab \in InterpValues \X InterpValues}

\* The voice files of the engine specifications are float files at the target rate:
\* loading them neither divides by zero nor resamples.
SteadyInterp == [i \in 1..(2 * MaxLen) |-> One]

\* The recording kept at a voice path, and another one that may replace it
StockVoice == <<One \div 2>>
OtherVoice == <<-(One \div 4)>>
VoiceSignals == {StockVoice, OtherVoice}
Embeddings == {VoiceEmbedding(x) : x \in VoiceSignals}
EmptyCache == [k \in VoiceKeys |-> NoEmbedding]

engineVars == <<config, unit, rng, voiceCache, cancelRequested, pc, run, gen, prevGen>>

----------------------------------------------------------------------------
(* PocketTTS::Impl::encodeVoice *)

MAX_REFERENCE_SAMPLES == TARGET_SAMPLE_RATE * 5

\* What encodeVoice comes to, with the cache it leaves and what it cost
VoiceResult(status, what, embedding, cache, fileReads, encoderRuns) ==
    [status |-> status, what |-> what, embedding |-> embedding, cache |-> cache,
     fileReads |-> fileReads, encoderRuns |-> encoderRuns]

\* voiceCache[audioPath] = {embeddings, finalShape}; return embeddings;
CacheEmbedding(cache, audioPath, embeddings) ==
    VoiceResult("ok", "", embeddings, [cache EXCEPT ![audioPath] = embeddings], 1, 1)

\* After loadWav: the cut to five seconds, the mimi_encoder run, the cache write.
EncodeLoaded(cache, audioPath, loaded) ==
    IF loaded.status # "ok"
    THEN VoiceResult(loaded.status, loaded.what, NoEmbedding, cache, 1, 0)
    ELSE CacheEmbedding(cache, audioPath,
                        VoiceEmbedding(SubSeq(loaded.samples, 1,
                                              Min(Len(loaded.samples),
                                                  MAX_REFERENCE_SAMPLES))))

\* The cache lookup comes first; then the test of the encoder; then loadWav at the
\* target rate and the encoding.
encodeVoice(cache, audioPath, files, ub, interp) ==
    IF cache[audioPath] # NoEmbedding
    THEN VoiceResult("ok", "", cache[audioPath], cache, 0, 0)
    ELSE IF ~config.loadVoiceEncoder
    THEN VoiceResult("error", "Voice encoder is disabled (loadVoiceEncoder=false).",
                     NoEmbedding, cache, 0, 0)
    ELSE EncodeLoaded(cache, audioPath,
                      loadWav(files[audioPath], audioPath, TARGET_SAMPLE_RATE, ub, interp))

----------------------------------------------------------------------------
(* PocketTTS::Impl::generate and PocketTTS::generateWithEmbeddings, from call to return *)

\* A call that threw: nothing of the session ran.
FailedGen(text, status, what) ==
    [NoGen EXCEPT !.text = text, !.status = status, !.what = what]

\* What generate comes to, with the cache and the rng it leaves
GenerateResult(g, v, r) ==
    [gen |-> g, cache |-> v.cache, rng |-> r,
     fileReads |-> v.fileReads, encoderRuns |-> v.encoderRuns]

\* The session ran: the generator is left where the session left it.
GenerateRan(g, v) == GenerateResult(g, v, g.rng)

\* generate after encodeVoice: the tokenizer, then the session.
GenerateWithVoice(text, v, tokenIds, r) ==
    IF v.status # "ok"
    THEN GenerateResult(FailedGen(text, v.status, v.what), v, r)
    ELSE IF tokenIds.status # "ok"
    THEN GenerateResult(FailedGen(text, tokenIds.status, tokenIds.what), v, r)
    ELSE GenerateRan(GenerateRun(text, v.embedding, r), v)

\* generate: the voice embedding first, then the tokenizer, then the session.
generate(text, voicePath, cache, files, r, ub, interp) ==
    GenerateWithVoice(text, encodeVoice(cache, voicePath, files, ub, interp),
                      encode(text), r)

\* generateWithEmbeddings: the embedding stored under "__embeddings__", then generate.
generateWithEmbeddings(text, voiceEmbeddings, cache, files, r, ub, interp) ==
    generate(text, EmbeddingsKey, [cache EXCEPT ![EmbeddingsKey] = voiceEmbeddings],
             files, r, ub, interp)

----------------------------------------------------------------------------
(* PocketTTS::generateStreaming, the statements before the loop *)

FailedRun(text, what) ==
    [NoRun EXCEPT !.text = text, !.status = "error", !.what = what, !.exit = "throw"]

\* After the callback test and the reset of the flag: the tokenizer, then the
\* session set-up.
StreamTokenized(text, voiceEmb, tokenIds, chunkSizeFrames, enableCancellation, r) ==
    IF tokenIds.status # "ok"
    THEN [run |-> FailedRun(text, tokenIds.what), flagReset |-> TRUE]
    ELSE [run |-> StreamStart(text, voiceEmb, chunkSizeFrames, enableCancellation, r),
          flagReset |-> TRUE]

\* Faulty variant: the flag reset and the text tokenized before the callback test.
StreamPrologue_ResetFirst(text, voiceEmb, callback, chunkSizeFrames, enableCancellation, r) ==
    IF encode(text).status # "ok" \/ callback
    THEN StreamTokenized(text, voiceEmb, encode(text), chunkSizeFrames,
                         enableCancellation, r)
    ELSE [run |-> FailedRun(text, "Callback must be provided"), flagReset |-> TRUE]

\* The callback test, the reset of the flag, the tokenizer, the session set-up.
StreamPrologue(text, voiceEmb, callback, chunkSizeFrames, enableCancellation, r) ==
    IF ~callback
    THEN [run |-> FailedRun(text, "Callback must be provided"), flagReset |-> FALSE]
    ELSE StreamTokenized(text, voiceEmb, encode(text), chunkSizeFrames,
                         enableCancellation, r)

\* The generateStreaming call run to its return with the flag never set.
RECURSIVE StreamToEnd(_, _)
StreamToEnd(r, rngIn) ==
    IF StreamLoopHead(r, FALSE) # "body" THEN StreamResult(StreamFlush(r, FALSE))
    ELSE LET b == StreamBody(r, rngIn)
         IN IF b.brk THEN StreamResult(StreamFlush(b.run, FALSE))
            ELSE StreamToEnd(b.run, b.rng)

\* What a generateStreaming call comes to; a stochastic run has drawn one noise
\* vector per frame.
StreamOutcome(done, flagReset, r) ==
    [run |-> done, flagReset |-> flagReset,
     rng |-> r + (IF config.temperature > 0 THEN Len(done.frames) ELSE 0)]

StreamAfterPrologue(p, r) ==
    IF p.run.status # "ok" THEN StreamOutcome(p.run, p.flagReset, r)
    ELSE StreamOutcome(StreamToEnd(p.run, r), p.flagReset, r)

\* generateStreaming from call to return when no thread sets the flag meanwhile
generateStreaming(text, voiceEmb, callback, chunkSizeFrames, enableCancellation, r) ==
    StreamAfterPrologue(StreamPrologue(text, voiceEmb, callback, chunkSizeFrames,
                                       enableCancellation, r), r)

----------------------------------------------------------------------------
(* The state machine *)

\* A stochastic instance draws one noise vector per frame; calls start while the
\* draws of one more call stay within MaxRng.
RngAllows == config.temperature > 0 => rng + config.maxFrames <= MaxRng

\* What the history holds before any call
NoCConfig == [temperature |-> -1, lsd_steps |-> -1, max_frames |-> -1]
NoHist == [cconfig |-> NoCConfig, firstEncoded |-> EmptyCache]

\* A voice file as saveWav leaves it
VoiceFile(x) == saveWav(x, TARGET_SAMPLE_RATE)

Init ==
    /\ config \in [maxFrames : 0..MaxFrames,
                   framesAfterEos : 0..MaxFae,
                   temperature : Temperatures,
                   lsdSteps : {LsdSteps},
                   loadVoiceEncoder : {TRUE}]
    /\ unit \in [eosAt : (0..MaxEos) \cup {NeverEos}]
    /\ rng = 0
    /\ voiceCache = EmptyCache
    /\ cancelRequested = FALSE
    /\ pc = "idle"
    /\ run = NoRun
    /\ gen = NoGen
    /\ prevGen = NoGen
    /\ fs = [p \in FilePaths |-> IF p \in VoicePaths THEN VoiceFile(StockVoice) ELSE NoFile]
    /\ call = NoCall
    /\ hist = NoHist

\* What a generate call leaves in the instance and hands to the caller
GenerateLeaves(g) ==
    /\ voiceCache' = g.cache
    /\ gen' = g.gen
    /\ rng' = g.rng

\* generate(text, voicePath), from call to return
Generate(text, voicePath, ub, interp) ==
    /\ pc = "idle"
    /\ RngAllows
    /\ GenerateLeaves(generate(text, voicePath, voiceCache, fs, rng, ub, interp))
    /\ pc' = "genDone"
    /\ UNCHANGED <<config, unit, cancelRequested, run, prevGen, fs, call, hist>>

\* The caller takes the waveform; it may keep it to compare with a later one.
GenerateReturn ==
    /\ pc = "genDone"
    /\ pc' = "idle"
    /\ gen' = NoGen
    /\ prevGen' \in {prevGen, gen}
    /\ UNCHANGED <<config, unit, rng, voiceCache, cancelRequested, run, fs, call, hist>>

\* What the statements before the loop leave in the instance
PrologueLeaves(p) ==
    /\ cancelRequested' = IF p.flagReset THEN FALSE ELSE cancelRequested
    /\ run' = p.run
    /\ pc' = IF p.run.status = "ok" THEN "loop" ELSE "done"

\* generateStreaming up to the loop: the flag is reset, the session is set up.
GenerateStreaming(text, voiceEmb, callback, chunkSizeFrames, enableCancellation) ==
    /\ pc = "idle"
    /\ RngAllows
    /\ PrologueLeaves(StreamPrologue(text, voiceEmb, callback, chunkSizeFrames,
                                     enableCancellation, rng))
    /\ UNCHANGED <<config, unit, rng, voiceCache, gen, prevGen, fs, call, hist>>

\* The head of one loop iteration: the bound on step and the read of the flag.
StreamLoopCheck ==
    /\ pc = "loop"
    /\ LET head == StreamLoopHead(run, cancelRequested)
       IN /\ pc' = IF head = "body" THEN "body" ELSE "flush"
          /\ run' = IF head = "body" THEN run
                    ELSE IF head = "max"
                         THEN [run EXCEPT !.exit = IF @ = "" THEN "max" ELSE @]
                         ELSE [run EXCEPT !.exit = "cancel",
                                          !.atCancel = [frames |-> Len(run.frames),
                                                        callbacks |-> Len(run.callbacks),
                                                        decodeCalls |-> run.decodeCalls,
                                                        totalSamples |-> run.totalSamples]]
    /\ UNCHANGED <<config, unit, rng, voiceCache, cancelRequested, gen, prevGen, fs, call, hist>>

\* The rest of the iteration.  A callback that was invoked may call cancelStreaming.
StreamLoopBody ==
    /\ pc = "body"
    /\ LET b == StreamBody(run, rng)
       IN /\ rng' = b.rng
          /\ pc' = IF b.brk THEN "flush" ELSE "loop"
          /\ \E cancels \in (IF b.delivered THEN BOOLEAN ELSE {FALSE}) :
                /\ cancelRequested' = (cancelRequested \/ cancels)
                /\ run' = [b.run EXCEPT !.cancelCalled = @ \/ cancels]
    /\ UNCHANGED <<config, unit, voiceCache, gen, prevGen, fs, call, hist>>

\* After the loop: the residual flush and the return value.
StreamFinish ==
    /\ pc = "flush"
    /\ run' = StreamResult(StreamFlush(run, cancelRequested))
    /\ pc' = "done"
    /\ UNCHANGED <<config, unit, rng, voiceCache, cancelRequested, gen, prevGen, fs, call, hist>>

\* generateStreaming has returned; its locals are gone.
StreamReturn ==
    /\ pc = "done"
    /\ pc' = "idle"
    /\ run' = NoRun
    /\ UNCHANGED <<config, unit, rng, voiceCache, cancelRequested, gen, prevGen, fs, call, hist>>

\* cancelStreaming(), from any thread at any time
CancelStreaming ==
    /\ cancelRequested' = TRUE
    /\ run' = IF pc \in {"loop", "body", "flush"}
              THEN [run EXCEPT !.cancelCalled = TRUE]
              ELSE run
    /\ UNCHANGED <<config, unit, rng, voiceCache, pc, gen, prevGen, fs, call, hist>>

Next ==
    \/ \E text \in Texts, voicePath \in VoicePaths :
          Generate(text, voicePath, "continue", SteadyInterp)
    \/ GenerateReturn
    \/ \E text \in Texts, chunkSizeFrames \in ChunkSizes, enableCancellation \in BOOLEAN :
          GenerateStreaming(text, VoiceEmbedding(StockVoice), TRUE, chunkSizeFrames,
                            enableCancellation)
    \/ StreamLoopCheck
    \/ StreamLoopBody
    \/ StreamFinish
    \/ StreamReturn
    \/ CancelStreaming

Spec == Init /\ [][Next]_vars

----------------------------------------------------------------------------
(* The AudioUtils functions applied to bounded inputs *)

\* The signals handed to the functions
SampleValues == {0, One \div 2, TARGET_PEAK, -One, (13 * One) \div 8, -((3 * One) \div 2)}
Signals == UNION {[1..n -> SampleValues] : n \in 0..MaxLen}

\* The files handed to loadWav
Formats == {1, 3, 65534}
ChannelCounts == {1, 2, 3}
BitsValues == {0, 8, 16, 24, 32, 65535}
FmtRecords == [audioFormat : Formats, numChannels : ChannelCounts,
               sampleRate : Rates, bitsPerSample : BitsValues]
GoodFmt == [audioFormat |-> 3, numChannels |-> 1,
            sampleRate |-> TARGET_SAMPLE_RATE, bitsPerSample |-> 32]

SampleWidth(fmt) == IF fmt.bitsPerSample \div 8 = 0 THEN 1 ELSE fmt.bitsPerSample \div 8
StockSamples(fmt) ==
    IF fmt.audioFormat = 3
    THEN [i \in 1..MaxLen |-> IF i % 2 = 1 THEN (13 * One) \div 8 ELSE -(One \div 2)]
    ELSE [i \in 1..MaxLen |-> IF i % 2 = 1 THEN 16384 ELSE -32768]

\* data chunks declaring n samples of which the file holds k
DataChunks(fmt) ==
    {DataChunk(nk[1] * SampleWidth(fmt), nk[2] * SampleWidth(fmt),
               SubSeq(StockSamples(fmt), 1, nk[2])) :
        nk \in {p \in (0..MaxLen) \X (0..MaxLen) : p[2] <= p[1]}}
FullDataChunks(fmt) == {c \in DataChunks(fmt) : c.present = c.size}

WavFiles ==
    {WavFile(<<FmtChunk(WavFmtChunkSize, WavFmtChunkSize, fd[1]), fd[2]>>) :
        fd \in UNION {{f} \X DataChunks(f) : f \in FmtRecords}}
    \cup {WavFile(<<OtherChunk(5), FmtChunk(WavFmtChunkSize, WavFmtChunkSize, GoodFmt), d>>) :
        d \in DataChunks(GoodFmt)}
    \cup {WavFile(<<fd[2], FmtChunk(WavFmtChunkSize, WavFmtChunkSize, fd[1])>>) :
        fd \in UNION {{f} \X FullDataChunks(f) : f \in FmtRecords}}
    \cup {WavFile(<<FmtChunk(WavFmtChunkSize, WavFmtChunkSize, f)>>) : f \in FmtRecords}
    \cup {WavFile(<<FmtChunk(WavFmtChunkSize - 2, WavFmtChunkSize - 2, GoodFmt), d>>) :
        d \in FullDataChunks(GoodFmt)}
    \cup {WavFile(<<FmtChunk(WavFmtChunkSize + 2, WavFmtChunkSize + 2, GoodFmt), d>>) :
        d \in DataChunks(GoodFmt)}
    \cup {WavFile(<<FmtChunk(WavFmtChunkSize + 2, WavFmtChunkSize, GoodFmt)>>),
          WavFile(<<FmtChunk(WavFmtChunkSize, WavFmtChunkSize \div 2, GoodFmt)>>),
          WavFile(<<>>),
          [magic |-> FALSE, chunks |-> <<>>, exists |-> TRUE]}

CodecInit ==
    /\ config = [maxFrames |-> 0, framesAfterEos |-> 0, temperature |-> 0,
                 lsdSteps |-> LsdSteps, loadVoiceEncoder |-> TRUE]
    /\ unit = [eosAt |-> 0]
    /\ rng = 0
    /\ voiceCache = EmptyCache
    /\ hist = NoHist
    /\ cancelRequested = FALSE
    /\ pc = "idle"
    /\ run = NoRun
    /\ gen = NoGen
    /\ prevGen = NoGen
    /\ \/ /\ fs = NoFiles
          /\ \E x \in Signals : call = [NoCall EXCEPT !.x = x]
       \/ /\ \E f \in WavFiles : fs = [NoFiles EXCEPT ![InPath] = f]
          /\ call = NoCall

\* AudioUtils::resample(x, inputSampleRate, outputSampleRate)
Resample(inputSampleRate, outputSampleRate, interp) ==
    /\ call' = [call EXCEPT !.op = "resample", !.path = "",
                            !.inRate = inputSampleRate, !.outRate = outputSampleRate,
                            !.out = Ok(resample(call.x, inputSampleRate,
                                                outputSampleRate, interp))]
    /\ UNCHANGED <<engineVars, fs, hist>>

\* AudioUtils::normalize(x)
Normalize ==
    /\ call' = [call EXCEPT !.op = "normalize", !.path = "", !.inRate = 0, !.outRate = 0,
                            !.out = Ok(normalize(call.x))]
    /\ UNCHANGED <<engineVars, fs, hist>>

\* AudioUtils::stereoToMono(x)
StereoToMono ==
    /\ call' = [call EXCEPT !.op = "stereoToMono", !.path = "", !.inRate = 0, !.outRate = 0,
                            !.out = stereoToMono(call.x)]
    /\ UNCHANGED <<engineVars, fs, hist>>

\* AudioUtils::saveWav(OutPath, x, sampleRate)
SaveWav(sampleRate) ==
    /\ fs' = [fs EXCEPT ![OutPath] = saveWav(call.x, sampleRate)]
    /\ call' = [call EXCEPT !.op = "saveWav", !.path = OutPath, !.inRate = 0,
                            !.outRate = sampleRate, !.out = Ok(<<>>)]
    /\ UNCHANGED <<engineVars, hist>>

\* AudioUtils::loadWav(filepath, targetSampleRate)
LoadWav(filepath, targetSampleRate, ub, interp) ==
    /\ call' = [call EXCEPT !.op = "loadWav", !.path = filepath, !.inRate = 0,
                            !.outRate = targetSampleRate,
                            !.out = loadWav(fs[filepath], filepath, targetSampleRate,
                                            ub, interp)]
    /\ UNCHANGED <<engineVars, fs, hist>>

CodecNext ==
    \/ \E inputSampleRate \in Rates, outputSampleRate \in Rates, interp \in Interps :
          Resample(inputSampleRate, outputSampleRate, interp)
    \/ Normalize
    \/ StereoToMono
    \/ \E sampleRate \in Rates : SaveWav(sampleRate)
    \/ \E filepath \in {InPath, OutPath}, targetSampleRate \in Rates,
          ub \in UbOutcomes, interp \in Interps :
          LoadWav(filepath, targetSampleRate, ub, interp)

CodecSpec == CodecInit /\ [][CodecNext]_vars

----------------------------------------------------------------------------
(* The C API: pocket_tts_create, pocket_tts_encode_voice, *)
(* pocket_tts_encode_voice_from_samples                   *)

\* The defaults of pocket_tts::PocketTTSConfig; a temperature of this interface
\* is held in tenths.
DefaultTemperature == 7
DefaultLsdSteps == 10
DefaultMaxFrames == 500
DefaultFramesAfterEos == 3

\* pocket_tts::PocketTTSConfig cfg;
DefaultConfig(loadVoiceEncoder) ==
    [maxFrames |-> DefaultMaxFrames, framesAfterEos |-> DefaultFramesAfterEos,
     temperature |-> DefaultTemperature, lsdSteps |-> DefaultLsdSteps,
     loadVoiceEncoder |-> loadVoiceEncoder]

\* The configuration pocket_tts_create hands to the constructor: a field of the
\* caller's struct replaces the default when it is greater than zero.
pocket_tts_create(cconfig, cfg) ==
    IF cconfig = NoCConfig THEN cfg
    ELSE [cfg EXCEPT
            !.temperature = IF cconfig.temperature > 0 THEN cconfig.temperature ELSE @,
            !.lsdSteps = IF cconfig.lsd_steps > 0 THEN cconfig.lsd_steps ELSE @,
            !.maxFrames = IF cconfig.max_frames > 0 THEN cconfig.max_frames ELSE @]

\* The C string pocket_tts_get_last_error gives after a failed encode_voice
EncodeVoiceHandle(v) ==
    IF v.status = "error"
    THEN [v EXCEPT !.what = <<"Failed to encode voice: ", v.what>>]
    ELSE v

\* pocket_tts_encode_voice: encodeVoice, its exception turned into a NULL handle.
pocket_tts_encode_voice(audio_path, cache, files, ub, interp) ==
    EncodeVoiceHandle(encodeVoice(cache, audio_path, files, ub, interp))

\* What pocket_tts_encode_voice_from_samples comes to: the handle, the files it
\* leaves and the samples it saved
FromSamplesResult(v, files, audio) ==
    [status |-> v.status, what |-> v.what, embedding |-> v.embedding,
     cache |-> v.cache, fileReads |-> v.fileReads, encoderRuns |-> v.encoderRuns,
     files |-> files, audio |-> audio]

\* AudioUtils::saveWav(tempPath, audio); then pocket_tts_encode_voice on tempPath
EncodeSaved(audio, saved, cache, ub, interp) ==
    FromSamplesResult(pocket_tts_encode_voice(TempVoicePath, cache, saved, ub, interp),
                      saved, audio)

SaveAndEncode(audio, cache, files, ub, interp) ==
    EncodeSaved(audio, [files EXCEPT ![TempVoicePath] = saveWav(audio, TARGET_SAMPLE_RATE)],
                cache, ub, interp)

\* pocket_tts_encode_voice_from_samples: resample to the target rate, save to the
\* temporary file, pocket_tts_encode_voice on its path.
pocket_tts_encode_voice_from_samples(audio_data, sample_rate, cache, files, ub, interp) ==
    IF Len(audio_data) <= 0
    THEN [status |-> "error", what |-> "Invalid parameters", embedding |-> NoEmbedding,
          cache |-> cache, fileReads |-> 0, encoderRuns |-> 0,
          files |-> files, audio |-> <<>>]
    ELSE SaveAndEncode(IF sample_rate # TARGET_SAMPLE_RATE
                       THEN resample(audio_data, sample_rate, TARGET_SAMPLE_RATE, interp)
                       ELSE audio_data,
                       cache, files, ub, interp)

----------------------------------------------------------------------------
(* The calls of one caller on one instance, each from call to return *)

ApiTexts == {"hi"} \cup BlankTexts
ApiChunkSizes == {1, 5}
SampleBuffers == {<<>>} \cup VoiceSignals

\* The configurations handed to the constructor and to pocket_tts_create
ConstructConfigs ==
    [maxFrames : {2}, framesAfterEos : {0}, temperature : Temperatures,
     lsdSteps : {LsdSteps}, loadVoiceEncoder : BOOLEAN]
CConfigs == [temperature : {0, 5}, lsd_steps : {0, LsdSteps}, max_frames : {0, 2}]

NoApiCall ==
    [op |-> "none", text |-> "", path |-> "", x |-> <<>>, arg |-> NoEmbedding,
     callback |-> FALSE, status |-> "ok", what |-> "", embedding |-> NoEmbedding,
     audio |-> <<>>, fileReads |-> 0, encoderRuns |-> 0, known |-> NoEmbedding,
     rngBefore |-> 0, cacheBefore |-> EmptyCache, flagBefore |-> FALSE]

\* The first embedding a successful encodeVoice(audioPath) returned
FirstEncoded(h, audioPath, v) ==
    IF v.status = "ok" /\ h.firstEncoded[audioPath] = NoEmbedding
    THEN [h EXCEPT !.firstEncoded[audioPath] = v.embedding]
    ELSE h

ApiInit ==
    /\ config = DefaultConfig(TRUE)
    /\ unit = [eosAt |-> 1]
    /\ rng = 0
    /\ voiceCache = EmptyCache
    /\ cancelRequested = FALSE
    /\ pc = "new"
    /\ run = NoRun
    /\ gen = NoGen
    /\ prevGen = NoGen
    /\ fs \in {NoFiles,
               [p \in FilePaths |-> IF p \in VoicePaths THEN VoiceFile(StockVoice) ELSE NoFile]}
    /\ call = NoApiCall
    /\ hist = NoHist

\* PocketTTS tts(cfg)
Construct(cfg) ==
    /\ pc = "new"
    /\ config' = cfg
    /\ pc' = "idle"
    /\ call' = [NoApiCall EXCEPT !.op = "PocketTTS"]
    /\ UNCHANGED <<unit, rng, voiceCache, cancelRequested, run, gen, prevGen, fs, hist>>

\* pocket_tts_create(&cconfig)
PocketTtsCreate(cconfig, loadVoiceEncoder) ==
    /\ pc = "new"
    /\ config' = pocket_tts_create(cconfig, DefaultConfig(loadVoiceEncoder))
    /\ pc' = "idle"
    /\ call' = [NoApiCall EXCEPT !.op = "pocket_tts_create"]
    /\ hist' = [hist EXCEPT !.cconfig = cconfig]
    /\ UNCHANGED <<unit, rng, voiceCache, cancelRequested, run, gen, prevGen, fs>>

\* What a voice call leaves in the instance, and the record of the call
VoiceCallLeaves(op, audioPath, x, v) ==
    /\ voiceCache' = v.cache
    /\ call' = [NoApiCall EXCEPT !.op = op, !.path = audioPath, !.x = x,
                                 !.status = v.status, !.what = v.what,
                                 !.embedding = v.embedding,
                                 !.fileReads = v.fileReads,
                                 !.encoderRuns = v.encoderRuns,
                                 !.known = hist.firstEncoded[audioPath],
                                 !.cacheBefore = voiceCache,
                                 !.flagBefore = cancelRequested]
    /\ hist' = FirstEncoded(hist, audioPath, v)

\* encodeVoice(audioPath)
CallEncodeVoice(audioPath, ub, interp) ==
    /\ pc = "idle"
    /\ VoiceCallLeaves("encodeVoice", audioPath, <<>>,
                       encodeVoice(voiceCache, audioPath, fs, ub, interp))
    /\ gen' = NoGen
    /\ run' = NoRun
    /\ UNCHANGED <<config, unit, rng, cancelRequested, pc, prevGen, fs>>

FromSamplesLeaves(audio_data, v) ==
    /\ voiceCache' = v.cache
    /\ fs' = v.files
    /\ call' = [NoApiCall EXCEPT !.op = "pocket_tts_encode_voice_from_samples",
                                 !.path = TempVoicePath, !.x = audio_data,
                                 !.status = v.status, !.what = v.what,
                                 !.embedding = v.embedding, !.audio = v.audio,
                                 !.fileReads = v.fileReads,
                                 !.encoderRuns = v.encoderRuns,
                                 !.known = hist.firstEncoded[TempVoicePath]]
    /\ hist' = FirstEncoded(hist, TempVoicePath, v)

\* pocket_tts_encode_voice_from_samples(handle, audio_data, sample_count, sample_rate)
CallEncodeVoiceFromSamples(audio_data, sample_rate, ub, interp) ==
    /\ pc = "idle"
    /\ FromSamplesLeaves(audio_data,
                         pocket_tts_encode_voice_from_samples(audio_data, sample_rate,
                                                              voiceCache, fs, ub, interp))
    /\ gen' = NoGen
    /\ run' = NoRun
    /\ UNCHANGED <<config, unit, rng, cancelRequested, pc, prevGen>>

\* What a generate call leaves in the instance, and the record of the call
GenerateCallLeaves(op, text, voicePath, arg, g) ==
    /\ GenerateLeaves(g)
    /\ call' = [NoApiCall EXCEPT !.op = op, !.text = text,
                                 !.path = voicePath, !.arg = arg,
                                 !.status = g.gen.status, !.what = g.gen.what,
                                 !.fileReads = g.fileReads,
                                 !.encoderRuns = g.encoderRuns,
                                 !.known = hist.firstEncoded[voicePath],
                                 !.rngBefore = rng,
                                 !.cacheBefore = voiceCache,
                                 !.flagBefore = cancelRequested]

\* generate(text, voicePath)
CallGenerate(text, voicePath, ub, interp) ==
    /\ pc = "idle"
    /\ RngAllows
    /\ GenerateCallLeaves("generate", text, voicePath, NoEmbedding,
                          generate(text, voicePath, voiceCache, fs, rng, ub, interp))
    /\ run' = NoRun
    /\ UNCHANGED <<config, unit, cancelRequested, pc, prevGen, fs, hist>>

\* generateWithEmbeddings(text, voiceEmbeddings, shape)
CallGenerateWithEmbeddings(text, voiceEmbeddings, ub, interp) ==
    /\ pc = "idle"
    /\ RngAllows
    /\ GenerateCallLeaves("generateWithEmbeddings", text, EmbeddingsKey, voiceEmbeddings,
                          generateWithEmbeddings(text, voiceEmbeddings, voiceCache, fs,
                                                 rng, ub, interp))
    /\ run' = NoRun
    /\ UNCHANGED <<config, unit, cancelRequested, pc, prevGen, fs, hist>>

\* What a generateStreaming call leaves in the instance, and the record of the call
StreamCallLeaves(text, voiceEmb, callback, g) ==
    /\ cancelRequested' = IF g.flagReset THEN FALSE ELSE cancelRequested
    /\ run' = g.run
    /\ rng' = g.rng
    /\ call' = [NoApiCall EXCEPT !.op = "generateStreaming", !.text = text,
                                 !.arg = voiceEmb, !.callback = callback,
                                 !.status = g.run.status, !.what = g.run.what,
                                 !.rngBefore = rng,
                                 !.cacheBefore = voiceCache,
                                 !.flagBefore = cancelRequested]

\* generateStreaming(text, voiceEmbeddings, shape, callback, streamConfig); the
\* callbacks of this caller do not call cancelStreaming.
CallGenerateStreaming(text, voiceEmb, callback, chunkSizeFrames, enableCancellation) ==
    /\ pc = "idle"
    /\ RngAllows
    /\ StreamCallLeaves(text, voiceEmb, callback,
                        generateStreaming(text, voiceEmb, callback, chunkSizeFrames,
                                          enableCancellation, rng))
    /\ gen' = NoGen
    /\ UNCHANGED <<config, unit, voiceCache, pc, prevGen, fs, hist>>

\* Another recording is stored at a voice path.
WriteVoiceFile(path, x) ==
    /\ pc = "idle"
    /\ fs[path] # VoiceFile(x)
    /\ fs' = [fs EXCEPT ![path] = VoiceFile(x)]
    /\ UNCHANGED <<engineVars, call, hist>>

\* cancelStreaming() between two calls
CallCancelStreaming ==
    /\ pc = "idle"
    /\ ~cancelRequested
    /\ CancelStreaming

\* The generation calls on an instance built by the constructor or by the C API
ApiNext ==
    \/ \E cfg \in ConstructConfigs : Construct(cfg)
    \/ \E cconfig \in CConfigs : PocketTtsCreate(cconfig, TRUE)
    \/ \E text \in ApiTexts, voicePath \in VoicePaths :
          CallGenerate(text, voicePath, "continue", SteadyInterp)
    \/ \E text \in ApiTexts, voiceEmbeddings \in Embeddings :
          CallGenerateWithEmbeddings(text, voiceEmbeddings, "continue", SteadyInterp)
    \/ \E text \in ApiTexts, voiceEmb \in Embeddings, callback \in BOOLEAN,
          chunkSizeFrames \in ApiChunkSizes :
          CallGenerateStreaming(text, voiceEmb, callback, chunkSizeFrames, TRUE)
    \/ CallCancelStreaming

ApiSpec == ApiInit /\ [][ApiNext]_vars

\* The voice calls on a constructed instance
VoiceInit ==
    /\ config \in [maxFrames : {1}, framesAfterEos : {0}, temperature : {0},
                   lsdSteps : {LsdSteps}, loadVoiceEncoder : BOOLEAN]
    /\ unit = [eosAt |-> 1]
    /\ rng = 0
    /\ voiceCache = EmptyCache
    /\ cancelRequested = FALSE
    /\ pc = "idle"
    /\ run = NoRun
    /\ gen = NoGen
    /\ prevGen = NoGen
    /\ fs \in {NoFiles,
               [p \in FilePaths |-> IF p \in VoicePaths THEN VoiceFile(StockVoice) ELSE NoFile]}
    /\ call = NoApiCall
    /\ hist = NoHist

VoiceNext ==
    \/ \E audioPath \in VoiceKeys : CallEncodeVoice(audioPath, "continue", SteadyInterp)
    \/ \E audio_data \in SampleBuffers, sample_rate \in Rates :
          CallEncodeVoiceFromSamples(audio_data, sample_rate, "continue", SteadyInterp)
    \/ \E text \in ApiTexts, voicePath \in VoiceKeys :
          CallGenerate(text, voicePath, "continue", SteadyInterp)
    \/ \E text \in ApiTexts, voiceEmbeddings \in Embeddings :
          CallGenerateWithEmbeddings(text, voiceEmbeddings, "continue", SteadyInterp)
    \/ \E path \in VoicePaths, x \in VoiceSignals : WriteVoiceFile(path, x)

VoiceSpec == VoiceInit /\ [][VoiceNext]_vars

----------------------------------------------------------------------------
(* The state tensors of a stateful unit: initState, createStateValue,         *)
(* updateStateFromOutput and the marshalling around Ort::Session::Run          *)

MaxSlots == 3            \* state inputs a session declares
MaxInvocations == 3      \* invocations of a unit in one call

\* A tensor name: its stem and the decimal digits after it ("state_10" is
\* the stem "state_" with the digits 1, 0)
TensorName(stem, digits) == [stem |-> stem, digits |-> digits]

\* std::stoi on the digits of a name
RECURSIVE Stoi(_)
Stoi(digits) ==
    IF digits = <<>> THEN 0
    ELSE 10 * Stoi(SubSeq(digits, 1, Len(digits) - 1)) + digits[Len(digits)]

\* std::to_string
RECURSIVE to_string(_)
to_string(n) == IF n < 10 THEN <<n>> ELSE Append(to_string(n \div 10), n % 10)

\* operator< of std::string on two names of one stem
RECURSIVE LexLess(_, _)
LexLess(a, b) ==
    IF a = <<>> THEN b # <<>>
    ELSE IF b = <<>> THEN FALSE
    ELSE IF a[1] # b[1] THEN a[1] < b[1]
    ELSE LexLess(Tail(a), Tail(b))

\* The arrangements of a set of names in a sequence
Arrangements(names) ==
    {q \in [1..Cardinality(names) -> names] :
        \A i, j \in 1..Cardinality(names) : i # j => q[i] # q[j]}

\* for (auto& [name, entry] : state): a std::map is walked in the order of its keys
MapOrder(state) ==
    CHOOSE q \in Arrangements(DOMAIN state) :
        \A i \in 1..(Len(q) - 1) : LexLess(q[i].digits, q[i + 1].digits)

\* Faulty variant: the names left in the order of the map.
SortByIndex_MapOrder(stateNames) == stateNames

\* std::sort(stateNames, idxA < idxB) with idx = std::stoi(name.substr(6))
SortByIndex(stateNames) ==
    CHOOSE q \in Arrangements({stateNames[i] : i \in 1..Len(stateNames)}) :
        \A i \in 1..(Len(q) - 1) : Stoi(q[i].digits) <= Stoi(q[i + 1].digits)

\* The element types StateEntry has a buffer for
BufferedTypes == {"FLOAT", "INT64", "BOOL"}

\* for (auto& dim : shape) if (dim < 0) dim = 0;
ResolveDynamic(shape) == [d \in 1..Len(shape) |-> IF shape[d] < 0 THEN 0 ELSE shape[d]]

\* totalSize: the product of the dimensions greater than zero, 1 at least
RECURSIVE PositiveProduct(_)
PositiveProduct(shape) ==
    IF shape = <<>> THEN 1
    ELSE (IF Head(shape) > 0 THEN Head(shape) ELSE 1) * PositiveProduct(Tail(shape))

TotalSize(shape) == IF PositiveProduct(shape) <= 0 THEN 1 ELSE PositiveProduct(shape)

\* GetElementCount: the product of the dimensions
RECURSIVE ElementCount(_)
ElementCount(shape) ==
    IF shape = <<>> THEN 1 ELSE Head(shape) * ElementCount(Tail(shape))

\* Faulty variant: the buffer sized by the product of the resolved dimensions.
NewStateEntry_ExactSize(input) ==
    [shape |-> ResolveDynamic(input.shape),
     dtype |-> IF input.dtype \in BufferedTypes THEN input.dtype ELSE "FLOAT",
     data |-> [size |-> ElementCount(ResolveDynamic(input.shape)), fill |-> <<"zeros">>]]

\* The StateEntry initState makes for one state input: the shape with its
\* dynamic dimensions at 0, the element type (float when there is no buffer for
\* the declared one) and a zero-filled buffer of totalSize elements.
NewStateEntry(input) ==
    [shape |-> ResolveDynamic(input.shape),
     dtype |-> IF input.dtype \in BufferedTypes THEN input.dtype ELSE "FLOAT",
     data |-> [size |-> TotalSize(ResolveDynamic(input.shape)), fill |-> <<"zeros">>]]

\* The inputs of a session whose name starts with "state_"
StateInputsOf(session) ==
    {session.inputs[i] : i \in {k \in 1..Len(session.inputs) :
                                  session.inputs[k].name.stem = "state_"}}

\* initState(session): name -> StateEntry
initState(session) ==
    [name \in {input.name : input \in StateInputsOf(session)} |->
        NewStateEntry(CHOOSE input \in StateInputsOf(session) : input.name = name)]

\* createStateValue: a tensor over the buffer of the entry, with its shape
createStateValue(entry) ==
    [shape |-> entry.shape, dtype |-> entry.dtype,
     size |-> entry.data.size, fill |-> entry.data.fill]

\* updateStateFromOutput: the shape of the output tensor, and its elements copied
\* into the buffer of the entry's type
updateStateFromOutput(entry, outputTensor) ==
    IF entry.dtype \in BufferedTypes
    THEN [entry EXCEPT !.shape = outputTensor.shape,
                       !.data = [size |-> ElementCount(outputTensor.shape),
                                 fill |-> outputTensor.fill]]
    ELSE [entry EXCEPT !.shape = outputTensor.shape]

\* The non-state inputs, then the state tensors in the order of stateNames
MarshalInputs(others, state) ==
    LET stateNames == SortByIndex(MapOrder(state))
    IN others \o [i \in 1..Len(stateNames) |->
                    [name |-> stateNames[i],
                     value |-> createStateValue(state[stateNames[i]])]]

\* Ort::Session::Run, as far as the state goes: the unit answers every declared
\* output; a state output has the declared shape of its slot with the dynamic
\* dimensions at the length the unit has reached, and contents of its own.
SessionRun(session, inputs, invocation) ==
    [i \in 1..Len(session.outputs) |->
        LET name == session.outputs[i]
        IN IF name.stem = "out_state_"
           THEN LET declared ==
                        (CHOOSE input \in StateInputsOf(session) :
                            Stoi(input.name.digits) = Stoi(name.digits)).shape
                IN [name |-> name,
                    shape |-> [d \in 1..Len(declared) |->
                                  IF declared[d] < 0 THEN invocation ELSE declared[d]],
                    fill |-> <<"out", name.digits, invocation>>]
           ELSE [name |-> name, shape |-> <<1>>, fill |-> <<"out", name.stem, invocation>>]]

\* for (i = first; i < outputs.size(); ++i): an output named out_state_<idx>
\* replaces the entry state_<idx> when the map has it
RECURSIVE UpdateStateFrom(_, _, _)
UpdateStateFrom(state, outputs, i) ==
    IF i > Len(outputs) THEN state
    ELSE LET outName == outputs[i].name
             stateName == TensorName("state_", to_string(Stoi(outName.digits)))
         IN IF outName.stem = "out_state_" /\ stateName \in DOMAIN state
            THEN UpdateStateFrom([state EXCEPT ![stateName] =
                                     updateStateFromOutput(@, outputs[i])],
                                 outputs, i + 1)
            ELSE UpdateStateFrom(state, outputs, i + 1)

\* The sessions of the model: a unit with up to MaxSlots state inputs, declared in
\* any order among the inputs, each with a shape and the element type of the unit
SlotIndexes == {0, 2, 10}
DeclaredShapes == {<<1, 2>>, <<1, -1, 2>>, <<-1>>, <<>>}
DeclaredTypes == BufferedTypes \cup {"FLOAT16"}
SlotOrders ==
    {q \in UNION {[1..n -> SlotIndexes] : n \in 1..MaxSlots} :
        \A i, j \in 1..Len(q) : i # j => q[i] # q[j]}

OtherInputs(unitName) ==
    IF unitName = "flow_lm_main"
    THEN <<TensorName("sequence", <<>>), TensorName("text_embeddings", <<>>)>>
    ELSE <<TensorName("latent", <<>>)>>

OtherOutputs(unitName) ==
    IF unitName = "flow_lm_main"
    THEN <<TensorName("conditioning", <<>>), TensorName("eos_logit", <<>>)>>
    ELSE <<TensorName("audio", <<>>)>>

\* The state inputs stand after the other inputs in the declared order; the state
\* outputs after the other outputs in the opposite order.
Session(unitName, order, shapes, dtype) ==
    [name |-> unitName,
     inputs |-> [i \in 1..Len(OtherInputs(unitName)) |->
                    [name |-> OtherInputs(unitName)[i], shape |-> <<1, -1>>,
                     dtype |-> "FLOAT"]]
                \o [i \in 1..Len(order) |->
                       [name |-> TensorName("state_", to_string(order[i])),
                        shape |-> shapes[order[i]], dtype |-> dtype]],
     outputs |-> OtherOutputs(unitName)
                 \o [i \in 1..Len(order) |->
                        TensorName("out_state_", to_string(order[Len(order) + 1 - i]))]]

Sessions ==
    {Session(unitName, order, shapes, dtype) :
        unitName \in {"flow_lm_main", "mimi_decoder"}, order \in SlotOrders,
        shapes \in [SlotIndexes -> DeclaredShapes], dtype \in DeclaredTypes}

\* The locals of a call around one unit: the state map, what the invocation made
\* last was fed and returned, and the state map of before it
NoTensors ==
    [state |-> <<>>, before |-> <<>>, inputs |-> <<>>, outputs |-> <<>>,
     invocations |-> 0, site |-> "", status |-> "ok"]

TensorInit ==
    /\ config = [maxFrames |-> 0, framesAfterEos |-> 0, temperature |-> 0,
                 lsdSteps |-> LsdSteps, loadVoiceEncoder |-> TRUE]
    /\ unit \in Sessions
    /\ rng = 0
    /\ voiceCache = EmptyCache
    /\ cancelRequested = FALSE
    /\ pc = "declared"
    /\ run = NoTensors
    /\ gen = NoGen
    /\ prevGen = NoGen
    /\ fs = NoFiles
    /\ call = NoCall
    /\ hist = NoHist

\* auto state = initState(session)
InitState ==
    /\ pc = "declared"
    /\ run' = [NoTensors EXCEPT !.state = initState(unit), !.site = "initState"]
    /\ pc' = "stateful"
    /\ UNCHANGED <<config, unit, rng, voiceCache, cancelRequested, gen, prevGen, fs, call, hist>>

\* Run throws when a state input is declared with a type createStateValue has no
\* tensor for.
RunAccepts(session) ==
    \A input \in StateInputsOf(session) : input.dtype \in BufferedTypes

\* One invocation of a unit with the state map: marshal, Run, and, where update
\* is set, the loop over the outputs from position first on
Invoke(site, first, update) ==
    /\ pc = "stateful"
    /\ run.invocations < MaxInvocations
    /\ run.status = "ok"
    /\ run' = IF ~RunAccepts(unit)
              THEN [run EXCEPT !.site = site, !.status = "error",
                               !.before = run.state,
                               !.inputs = MarshalInputs(
                                   [i \in 1..Len(OtherInputs(unit.name)) |->
                                       [name |-> OtherInputs(unit.name)[i],
                                        value |-> <<>>]], run.state)]
              ELSE LET inputs == MarshalInputs(
                                     [i \in 1..Len(OtherInputs(unit.name)) |->
                                         [name |-> OtherInputs(unit.name)[i],
                                          value |-> <<>>]], run.state)
                       outputs == SessionRun(unit, inputs, run.invocations + 1)
                   IN [run EXCEPT !.site = site,
                                  !.before = run.state,
                                  !.inputs = inputs,
                                  !.outputs = outputs,
                                  !.invocations = @ + 1,
                                  !.state = IF update
                                            THEN UpdateStateFrom(@, outputs, first)
                                            ELSE @]
    /\ UNCHANGED <<config, unit, rng, voiceCache, cancelRequested, pc, gen, prevGen, fs, call, hist>>

\* runFlowLmMainStep: the outputs 0 and 1 are the conditioning and the stop-logit
RunFlowLmMainStep ==
    /\ unit.name = "flow_lm_main"
    /\ Invoke("runFlowLmMainStep", 3, TRUE)

\* One iteration of the loop of decodeLatents, or of the in-loop decode of
\* generateStreaming: the output 0 is the audio
DecodeStep ==
    /\ unit.name = "mimi_decoder"
    /\ Invoke("decode", 2, TRUE)

\* One iteration of the residual decode of generateStreaming: there is no loop
\* over the state outputs
FlushDecodeStep ==
    /\ unit.name = "mimi_decoder"
    /\ Invoke("flush", 2, FALSE)

TensorNext ==
    \/ InitState
    \/ RunFlowLmMainStep
    \/ DecodeStep
    \/ FlushDecodeStep

TensorSpec == TensorInit /\ [][TensorNext]_vars

----------------------------------------------------------------------------
(* generate and generateStreaming, one unit invocation at a time *)

UnitNames ==
    {"mimi_encoder", "text_conditioner", "flow_lm_main", "flow_lm_flow", "mimi_decoder"}

\* The runs of this part: maxFrames, chunkSizeFrames and the step of the first
\* exceeding stop-logit
StepFrameBounds == {0, 1, 3, DecodeBatch + 2}
StepChunkSizes == {1, 2, DecodeBatch + 1, DecodeBatch + 3}
StepEosAt == {0, 1, NeverEos}

\* The locals of a call.  Frames are named by the step that made them; decoded
\* lists the groups of frames handed to the decode unit, one per invocation, and
\* chunks the frames whose audio each callback was given.
NoStepRun ==
    [op |-> "", api |-> FALSE, voicePath |-> "",
     chunkSizeFrames |-> 0, enableCancellation |-> FALSE,
     step |-> 0, eosStep |-> -1, j |-> 0, i |-> 0,
     allLatents |-> <<>>, pendingLatents |-> <<>>, decoded |-> <<>>,
     invoked |-> [u \in UnitNames |-> 0], callbacks |-> 0, finals |-> 0,
     chunks |-> <<>>,
     totalSamples |-> 0, loopSteps |-> 0,
     failed |-> "", atFailure |-> <<>>,
     flagAtCall |-> FALSE, cancelCalled |-> FALSE, exit |-> "",
     status |-> "", ret |-> 0, lastError |-> ""]

\* Ort::Session::Run of a unit: the invocation is counted; when it throws, the
\* counts of the call at that moment are kept for comparison.
Invoked(r, unitName, ok) ==
    IF ok THEN [r EXCEPT !.invoked[unitName] = @ + 1]
    ELSE [r EXCEPT !.invoked[unitName] = @ + 1,
                   !.failed = unitName,
                   !.atFailure = [invoked |-> [r.invoked EXCEPT ![unitName] = @ + 1],
                                  callbacks |-> r.callbacks]]

\* Faulty variant: the exception of Run swallowed, the call going on.
AfterRun_Swallowed(ok, next) == next

\* Where the call goes after Run: on, or out with the exception (neither generate
\* nor generateStreaming has a handler).
AfterRun(ok, next) == IF ok THEN next ELSE "thrown"

\* Faulty variant: the flag left as the call found it.
FlagAfterReset_Kept(flag) == flag

\* impl_->cancelRequested = false;
FlagAfterReset(flag) == FALSE

\* The statement after the autoregressive loop
AfterLoop(op) == IF op = "generateStreaming" THEN "flushHead" ELSE "decodeLatents"

StepInit ==
    /\ config \in [maxFrames : StepFrameBounds, framesAfterEos : 0..MaxFae,
                   temperature : {0}, lsdSteps : {LsdSteps}, loadVoiceEncoder : {TRUE}]
    /\ unit \in [eosAt : StepEosAt]
    /\ rng = 0
    /\ voiceCache = EmptyCache
    /\ cancelRequested = FALSE
    /\ pc = "idle"
    /\ run = NoStepRun
    /\ gen = NoGen
    /\ prevGen = NoGen
    /\ fs = NoFiles
    /\ call = NoCall
    /\ hist = NoHist

\* generateStreaming, or pocket_tts_generate_streaming (api), with a callback and a
\* text the tokenizer accepts: the flag is reset, the text is tokenized.
StreamingCallBegins(api, chunkSizeFrames, enableCancellation) ==
    /\ pc = "idle"
    /\ api => enableCancellation
    /\ cancelRequested' = FlagAfterReset(cancelRequested)
    /\ run' = [NoStepRun EXCEPT !.op = "generateStreaming", !.api = api,
                                !.chunkSizeFrames = chunkSizeFrames,
                                !.enableCancellation = enableCancellation,
                                !.flagAtCall = cancelRequested]
    /\ pc' = "textConditioner"
    /\ UNCHANGED <<config, unit, rng, voiceCache, gen, prevGen, fs, hist>>

CallStreamingStepwise(api, chunkSizeFrames, enableCancellation) ==
    /\ StreamingCallBegins(api, chunkSizeFrames, enableCancellation)
    /\ UNCHANGED call

\* generate(text, voicePath), or pocket_tts_generate (api) through
\* generateWithEmbeddings: encodeVoice up to the cache lookup
CallGenerateStepwise(api, voicePath) ==
    /\ pc = "idle"
    /\ api <=> voicePath = EmbeddingsKey
    /\ voiceCache' = IF api THEN [voiceCache EXCEPT ![EmbeddingsKey] = VoiceEmbedding(StockVoice)]
                      ELSE voiceCache
    /\ run' = [NoStepRun EXCEPT !.op = "generate", !.api = api, !.voicePath = voicePath]
    /\ pc' = IF voiceCache'[voicePath] # NoEmbedding THEN "textConditioner"
              ELSE "mimiEncoder"
    /\ UNCHANGED <<config, unit, rng, cancelRequested, gen, prevGen, fs, call, hist>>

\* encodeVoice: mimiEncoder->Run, then the cache write
EncoderRun(ok) ==
    /\ pc = "mimiEncoder"
    /\ run' = Invoked(run, "mimi_encoder", ok)
    /\ voiceCache' = IF ok THEN [voiceCache EXCEPT ![run.voicePath] = VoiceEmbedding(StockVoice)]
                      ELSE voiceCache
    /\ pc' = AfterRun(ok, "textConditioner")
    /\ UNCHANGED <<config, unit, rng, cancelRequested, gen, prevGen, fs, call, hist>>

\* runTextConditioner, then initState
TextConditionerRun(ok) ==
    /\ pc = "textConditioner"
    /\ run' = Invoked(run, "text_conditioner", ok)
    /\ pc' = AfterRun(ok, "voicePass")
    /\ UNCHANGED <<config, unit, rng, voiceCache, cancelRequested, gen, prevGen, fs, call, hist>>

\* The voice conditioning pass
VoicePassRun(ok) ==
    /\ pc = "voicePass"
    /\ run' = Invoked(run, "flow_lm_main", ok)
    /\ pc' = AfterRun(ok, "textPass")
    /\ UNCHANGED <<config, unit, rng, voiceCache, cancelRequested, gen, prevGen, fs, call, hist>>

\* The text conditioning pass, then the locals of the loop
TextPassRun(ok) ==
    /\ pc = "textPass"
    /\ run' = Invoked(run, "flow_lm_main", ok)
    /\ pc' = AfterRun(ok, "loopHead")
    /\ UNCHANGED <<config, unit, rng, voiceCache, cancelRequested, gen, prevGen, fs, call, hist>>

\* for (step = 0; step < maxFrames; ++step), and in generateStreaming the
\* cancellation check
LoopHead ==
    /\ pc = "loopHead"
    /\ pc' = IF ~LoopContinues(run.step) THEN AfterLoop(run.op)
              ELSE IF run.op = "generateStreaming" /\ CancelCheck(run, cancelRequested)
              THEN AfterLoop(run.op)
              ELSE "mainStep"
    /\ run' = IF pc' = "mainStep" THEN [run EXCEPT !.loopSteps = @ + 1]
              ELSE IF ~LoopContinues(run.step) THEN [run EXCEPT !.exit = "max"]
              ELSE [run EXCEPT !.exit = "cancel"]
    /\ UNCHANGED <<config, unit, rng, voiceCache, cancelRequested, gen, prevGen, fs, call, hist>>

\* runFlowLmMainStep on current, the stop test and the break of the grace window
MainRun(ok) ==
    /\ pc = "mainStep"
    /\ LET eosStep == IF ok /\ EosDetected(StopLogit(run.step), run.eosStep)
                      THEN run.step ELSE run.eosStep
       IN /\ run' = [Invoked(run, "flow_lm_main", ok) EXCEPT
                        !.eosStep = eosStep, !.j = 0,
                        !.exit = IF ok /\ StopAfterEos(run.step, eosStep) THEN "eos" ELSE @]
          /\ pc' = AfterRun(ok, IF StopAfterEos(run.step, eosStep)
                                THEN AfterLoop(run.op) ELSE "flow")
    /\ UNCHANGED <<config, unit, rng, voiceCache, cancelRequested, gen, prevGen, fs, call, hist>>

\* What follows the push of a frame: in generate the next step; in
\* generateStreaming the decode of the pending frames when the chunk is ready
AfterPush(r) ==
    IF r.op = "generateStreaming" /\ ChunkReady(r) THEN "decode" ELSE "loopHead"

\* The frame of the step pushed, the step counted when the iteration ends here
Pushed(r) ==
    [r EXCEPT !.allLatents = Append(@, r.step),
              !.pendingLatents = IF r.op = "generateStreaming" THEN Append(@, r.step) ELSE @,
              !.i = 0]

\* One sub-step of the Euler loop: runFlowLmFlow; after the last, the frame is
\* pushed.
FlowRun(ok) ==
    /\ pc = "flow"
    /\ LET r == [Invoked(run, "flow_lm_flow", ok) EXCEPT !.j = @ + 1]
       IN IF ~ok \/ r.j < config.lsdSteps
          THEN /\ run' = r
               /\ pc' = AfterRun(ok, "flow")
          ELSE /\ run' = IF AfterPush(Pushed(r)) = "loopHead"
                         THEN [Pushed(r) EXCEPT !.step = @ + 1]
                         ELSE Pushed(r)
               /\ pc' = AfterRun(ok, AfterPush(Pushed(r)))
    /\ UNCHANGED <<config, unit, rng, voiceCache, cancelRequested, gen, prevGen, fs, call, hist>>

\* Faulty variant: i advanced by one less than the size of a group.
DecodeGroup_Overlapping(r, frames, ok) ==
    IF ok THEN [Invoked(r, "mimi_decoder", ok) EXCEPT
                   !.decoded = Append(@, SubSeqFrom(frames, r.i,
                                                    Min(r.i + DecodeBatch, Len(frames)) - r.i)),
                   !.i = @ + DecodeBatch - 1]
    ELSE Invoked(r, "mimi_decoder", ok)

\* One invocation of the decode unit on the frames i .. min(i + 15, size) - 1 of a
\* list, i advanced by 15
DecodeGroup(r, frames, ok) ==
    IF ok THEN [Invoked(r, "mimi_decoder", ok) EXCEPT
                   !.decoded = Append(@, SubSeqFrom(frames, r.i,
                                                    Min(r.i + DecodeBatch, Len(frames)) - r.i)),
                   !.i = @ + DecodeBatch]
    ELSE Invoked(r, "mimi_decoder", ok)

\* The in-loop decode of generateStreaming, one invocation
ChunkDecodeRun(ok) ==
    /\ pc = "decode"
    /\ run.i < Len(run.pendingLatents)
    /\ run' = DecodeGroup(run, run.pendingLatents, ok)
    /\ pc' = AfterRun(ok, IF run'.i >= Len(run.pendingLatents) THEN "callback" ELSE "decode")
    /\ UNCHANGED <<config, unit, rng, voiceCache, cancelRequested, gen, prevGen, fs, call, hist>>

\* callback(chunkAudio, size, isFinal); totalSamples; pendingLatents.clear().  The
\* callback may call cancelStreaming.
ChunkCallback(cancels) ==
    /\ pc = "callback"
    /\ run' = [run EXCEPT !.callbacks = @ + 1,
                          !.finals = @ + (IF StopAfterEos(run.step, run.eosStep) THEN 1 ELSE 0),
                          !.chunks = Append(@, [frames |-> run.pendingLatents,
                                                site |-> "loop",
                                                isFinal |-> StopAfterEos(run.step,
                                                                         run.eosStep)]),
                          !.totalSamples = @ + SamplesPerLatent * Len(run.pendingLatents),
                          !.pendingLatents = <<>>,
                          !.cancelCalled = @ \/ cancels,
                          !.step = @ + 1]
    /\ cancelRequested' = (cancelRequested \/ cancels)
    /\ pc' = "loopHead"
    /\ UNCHANGED <<config, unit, rng, voiceCache, gen, prevGen, fs, call, hist>>

\* if (!pendingLatents.empty() && !impl_->cancelRequested)
FlushHead ==
    /\ pc = "flushHead"
    /\ pc' = IF FlushReady(run, cancelRequested) THEN "flushDecode" ELSE "return"
    /\ run' = [run EXCEPT !.i = 0]
    /\ UNCHANGED <<config, unit, rng, voiceCache, cancelRequested, gen, prevGen, fs, call, hist>>

\* The residual decode, one invocation
ResidualDecodeRun(ok) ==
    /\ pc = "flushDecode"
    /\ run.i < Len(run.pendingLatents)
    /\ run' = DecodeGroup(run, run.pendingLatents, ok)
    /\ pc' = AfterRun(ok, IF run'.i >= Len(run.pendingLatents)
                          THEN "flushCallback" ELSE "flushDecode")
    /\ UNCHANGED <<config, unit, rng, voiceCache, cancelRequested, gen, prevGen, fs, call, hist>>

\* callback(finalAudio, size, true); totalSamples
ResidualCallback(cancels) ==
    /\ pc = "flushCallback"
    /\ run' = [run EXCEPT !.callbacks = @ + 1, !.finals = @ + 1,
                          !.chunks = Append(@, [frames |-> run.pendingLatents,
                                                site |-> "flush", isFinal |-> TRUE]),
                          !.cancelCalled = @ \/ cancels,
                          !.totalSamples = @ + SamplesPerLatent * Len(run.pendingLatents)]
    /\ cancelRequested' = (cancelRequested \/ cancels)
    /\ pc' = "return"
    /\ UNCHANGED <<config, unit, rng, voiceCache, gen, prevGen, fs, call, hist>>

\* decodeLatents of generate: nothing for no frames, else one invocation per group
BatchDecodeRun(ok) ==
    /\ pc = "decodeLatents"
    /\ run.i < Len(run.allLatents)
    /\ run' = DecodeGroup(run, run.allLatents, ok)
    /\ pc' = AfterRun(ok, "decodeLatents")
    /\ UNCHANGED <<config, unit, rng, voiceCache, cancelRequested, gen, prevGen, fs, call, hist>>

\* The call returns: totalSamples, or the waveform; the C functions return 0 or
\* the total.
CallReturns ==
    /\ \/ pc = "return"
       \/ pc = "decodeLatents" /\ run.i >= Len(run.allLatents)
    /\ run' = [run EXCEPT !.status = "ok",
                          !.ret = IF run.op = "generateStreaming" THEN run.totalSamples
                                  ELSE 0]
    /\ pc' = "idle"
    /\ UNCHANGED <<config, unit, rng, voiceCache, cancelRequested, gen, prevGen, fs, call, hist>>

\* The exception leaves the call: to the C++ caller as it is, through the C
\* functions as -1 with the message kept for pocket_tts_get_last_error.
CallThrows ==
    /\ pc = "thrown"
    /\ run' = IF run.api
              THEN [run EXCEPT !.status = "error", !.ret = -1,
                               !.lastError = IF run.op = "generateStreaming"
                                             THEN "Streaming failed: "
                                             ELSE "Failed to generate: "]
              ELSE [run EXCEPT !.status = "exception"]
    /\ pc' = "idle"
    /\ UNCHANGED <<config, unit, rng, voiceCache, cancelRequested, gen, prevGen, fs, call, hist>>

\* cancelStreaming() from any thread, between two calls or while one runs
CancelAnyTime ==
    /\ ~cancelRequested
    /\ cancelRequested' = TRUE
    /\ run' = IF pc # "idle" THEN [run EXCEPT !.cancelCalled = TRUE] ELSE run
    /\ UNCHANGED <<config, unit, rng, voiceCache, pc, gen, prevGen, fs, call, hist>>

StepNext ==
    \/ \E api \in BOOLEAN, chunkSizeFrames \in StepChunkSizes, enableCancellation \in BOOLEAN :
          CallStreamingStepwise(api, chunkSizeFrames, enableCancellation)
    \/ \E api \in BOOLEAN, voicePath \in VoicePaths \cup {EmbeddingsKey} :
          CallGenerateStepwise(api, voicePath)
    \/ \E ok \in BOOLEAN : EncoderRun(ok)
    \/ \E ok \in BOOLEAN : TextConditionerRun(ok)
    \/ \E ok \in BOOLEAN : VoicePassRun(ok)
    \/ \E ok \in BOOLEAN : TextPassRun(ok)
    \/ LoopHead
    \/ \E ok \in BOOLEAN : MainRun(ok)
    \/ \E ok \in BOOLEAN : FlowRun(ok)
    \/ \E ok \in BOOLEAN : ChunkDecodeRun(ok)
    \/ \E cancels \in BOOLEAN : ChunkCallback(cancels)
    \/ FlushHead
    \/ \E ok \in BOOLEAN : ResidualDecodeRun(ok)
    \/ \E cancels \in BOOLEAN : ResidualCallback(cancels)
    \/ \E ok \in BOOLEAN : BatchDecodeRun(ok)
    \/ CallReturns
    \/ CallThrows
    \/ CancelAnyTime

StepSpec == StepInit /\ [][StepNext]_vars

\* The steps of the thread that runs a call
CallStep ==
    \/ \E ok \in BOOLEAN : EncoderRun(ok)
    \/ \E ok \in BOOLEAN : TextConditionerRun(ok)
    \/ \E ok \in BOOLEAN : VoicePassRun(ok)
    \/ \E ok \in BOOLEAN : TextPassRun(ok)
    \/ LoopHead
    \/ \E ok \in BOOLEAN : MainRun(ok)
    \/ \E ok \in BOOLEAN : FlowRun(ok)
    \/ \E ok \in BOOLEAN : ChunkDecodeRun(ok)
    \/ \E cancels \in BOOLEAN : ChunkCallback(cancels)
    \/ FlushHead
    \/ \E ok \in BOOLEAN : ResidualDecodeRun(ok)
    \/ \E cancels \in BOOLEAN : ResidualCallback(cancels)
    \/ \E ok \in BOOLEAN : BatchDecodeRun(ok)
    \/ CallReturns
    \/ CallThrows

\* Every unit invocation and every callback returns (or throws), and the thread
\* of the call goes on to its next statement.
StepFairSpec == StepSpec /\ WF_vars(CallStep)

----------------------------------------------------------------------------
(* The Node addon: PocketTTSWrap and VoiceWrap over the C API *)

\* Wrapper objects created in one behaviour
MaxEngines == 2
MaxVoices == 2

\* nullptr
NullHandle == 0

\* The wrappers in creation order and, for every handle the C API has returned,
\* the number of pocket_tts_destroy or pocket_tts_free_voice calls made on it;
\* misused holds the handles passed to the C API after that.
NoAddon ==
    [engines |-> <<>>, voices |-> <<>>, destroyed |-> <<>>, freed |-> <<>>,
     misused |-> {}]

NoAddonCall ==
    [op |-> "none", status |-> "ok", what |-> "", closed |-> FALSE,
     freedVoice |-> FALSE, cApi |-> <<>>]

\* An engine handle passed to pocket_tts_encode_voice,
\* pocket_tts_encode_voice_from_samples or pocket_tts_generate
UseEngine(a, h) ==
    IF a.destroyed[h] > 0 THEN [a EXCEPT !.misused = @ \cup {<<"engine", h>>}] ELSE a

\* A voice handle passed to pocket_tts_generate
UseVoice(a, h) ==
    IF a.freed[h] > 0 THEN [a EXCEPT !.misused = @ \cup {<<"voice", h>>}] ELSE a

\* pocket_tts_destroy(handle): delete
pocket_tts_destroy(a, h) == [UseEngine(a, h) EXCEPT !.destroyed[h] = @ + 1]

\* pocket_tts_free_voice(voice): delete
pocket_tts_free_voice(a, h) == [UseVoice(a, h) EXCEPT !.freed[h] = @ + 1]

\* PocketTTSWrap::reset
PocketTTSWrapReset(a, e) ==
    IF a.engines[e].handle_ # NullHandle
    THEN [pocket_tts_destroy(a, a.engines[e].handle_) EXCEPT
            !.engines[e].handle_ = NullHandle]
    ELSE a

\* Faulty variant: the handle kept after pocket_tts_free_voice.
VoiceWrapReset_KeepsHandle(a, v) ==
    IF a.voices[v].ownsHandle_ /\ a.voices[v].handle_ # NullHandle
    THEN pocket_tts_free_voice(a, a.voices[v].handle_)
    ELSE a

\* VoiceWrap::reset
VoiceWrapReset(a, v) ==
    [(IF a.voices[v].ownsHandle_ /\ a.voices[v].handle_ # NullHandle
      THEN pocket_tts_free_voice(a, a.voices[v].handle_)
      ELSE a) EXCEPT !.voices[v].handle_ = NullHandle,
                     !.voices[v].ownsHandle_ = FALSE]

\* VoiceWrap::newInstance(env, voice) on the handle a C call has just returned
VoiceWrapNewInstance(a) ==
    [a EXCEPT !.freed = Append(@, 0),
              !.voices = Append(@, [handle_ |-> Len(a.freed) + 1, ownsHandle_ |-> TRUE,
                                    js |-> "live", freeCalled |-> FALSE])]

AddonInit ==
    /\ config = DefaultConfig(TRUE)
    /\ unit = [eosAt |-> 1]
    /\ rng = 0
    /\ voiceCache = EmptyCache
    /\ cancelRequested = FALSE
    /\ pc = "addon"
    /\ run = NoAddon
    /\ gen = NoGen
    /\ prevGen = NoGen
    /\ fs = NoFiles
    /\ call = NoAddonCall
    /\ hist = NoHist

AddonLeaves(a, c) ==
    /\ run' = a
    /\ call' = c
    /\ UNCHANGED <<config, unit, rng, voiceCache, cancelRequested, pc, gen, prevGen, fs, hist>>

\* new PocketTTS(config): pocket_tts_create returns a handle or nullptr; with
\* nullptr the constructor throws and no script holds the object.
NewPocketTTS(created) ==
    /\ pc = "addon"
    /\ Len(run.engines) < MaxEngines
    /\ IF created
       THEN AddonLeaves([run EXCEPT !.destroyed = Append(@, 0),
                                    !.engines = Append(@, [handle_ |-> Len(run.destroyed) + 1,
                                                           js |-> "live",
                                                           closeCalled |-> FALSE])],
                        [NoAddonCall EXCEPT !.op = "PocketTTS",
                                            !.cApi = <<"pocket_tts_create">>])
       ELSE AddonLeaves([run EXCEPT !.engines = Append(@, [handle_ |-> NullHandle,
                                                           js |-> "garbage",
                                                           closeCalled |-> FALSE])],
                        [NoAddonCall EXCEPT !.op = "PocketTTS", !.status = "error",
                                            !.what = "Failed to create PocketTTS instance",
                                            !.cApi = <<"pocket_tts_create">>])

\* new Voice(...) from a script: no External to pass, the constructor throws.
NewVoiceDirectly ==
    /\ pc = "addon"
    /\ Len(run.voices) < MaxVoices
    /\ AddonLeaves([run EXCEPT !.voices = Append(@, [handle_ |-> NullHandle,
                                                     ownsHandle_ |-> FALSE,
                                                     js |-> "garbage",
                                                     freeCalled |-> FALSE])],
                   [NoAddonCall EXCEPT !.op = "Voice", !.status = "error",
                                       !.what = "Voice cannot be constructed directly"])

\* PocketTTSWrap::encodeVoice and PocketTTSWrap::encodeVoiceFromSamples with
\* well-typed arguments; cFunction returns a voice handle (ok) or nullptr.
WrapEncode(op, cFunction, failure, e, ok) ==
    /\ pc = "addon"
    /\ e \in 1..Len(run.engines)
    /\ run.engines[e].js = "live"
    /\ IF run.engines[e].handle_ = NullHandle
       THEN AddonLeaves(run, [NoAddonCall EXCEPT !.op = op, !.status = "error",
                                   !.what = "PocketTTS instance already closed",
                                   !.closed = TRUE])
       ELSE IF ok
       THEN /\ Len(run.voices) < MaxVoices
            /\ AddonLeaves(VoiceWrapNewInstance(UseEngine(run, run.engines[e].handle_)),
                           [NoAddonCall EXCEPT !.op = op, !.cApi = <<cFunction>>])
       ELSE AddonLeaves(UseEngine(run, run.engines[e].handle_),
                        [NoAddonCall EXCEPT !.op = op, !.status = "error",
                                            !.what = failure, !.cApi = <<cFunction>>])

WrapEncodeVoice(e, ok) ==
    WrapEncode("encodeVoice", "pocket_tts_encode_voice", "Failed to encode voice", e, ok)

WrapEncodeVoiceFromSamples(e, ok) ==
    WrapEncode("encodeVoiceFromSamples", "pocket_tts_encode_voice_from_samples",
               "Failed to encode voice from samples", e, ok)

\* PocketTTSWrap::generate(text, voice) with a string and a Voice object;
\* pocket_tts_generate returns 0 (ok) or not.
WrapGenerate(e, v, ok) ==
    /\ pc = "addon"
    /\ e \in 1..Len(run.engines)
    /\ v \in 1..Len(run.voices)
    /\ run.engines[e].js = "live"
    /\ run.voices[v].js = "live"
    /\ IF run.engines[e].handle_ = NullHandle
       THEN AddonLeaves(run, [NoAddonCall EXCEPT !.op = "generate", !.status = "error",
                                   !.what = "PocketTTS instance already closed",
                                   !.closed = TRUE,
                                   !.freedVoice = (run.voices[v].handle_ = NullHandle)])
       ELSE IF run.voices[v].handle_ = NullHandle
       THEN AddonLeaves(run, [NoAddonCall EXCEPT !.op = "generate", !.status = "error",
                                   !.what = "voice must be a live Voice handle",
                                   !.freedVoice = TRUE])
       ELSE AddonLeaves(UseVoice(UseEngine(run, run.engines[e].handle_),
                                 run.voices[v].handle_),
                        IF ok
                        THEN [NoAddonCall EXCEPT !.op = "generate",
                                  !.cApi = <<"pocket_tts_generate", "pocket_tts_free_audio">>]
                        ELSE [NoAddonCall EXCEPT !.op = "generate", !.status = "error",
                                  !.what = "Failed to generate audio",
                                  !.cApi = <<"pocket_tts_generate">>])

\* PocketTTSWrap::close
WrapClose(e) ==
    /\ pc = "addon"
    /\ e \in 1..Len(run.engines)
    /\ run.engines[e].js = "live"
    /\ AddonLeaves([PocketTTSWrapReset(run, e) EXCEPT !.engines[e].closeCalled = TRUE],
                   [NoAddonCall EXCEPT !.op = "close", !.closed = (run.engines[e].handle_ = NullHandle),
                        !.cApi = IF run.engines[e].handle_ = NullHandle THEN <<>>
                                 ELSE <<"pocket_tts_destroy">>])

\* VoiceWrap::free
VoiceFree(v) ==
    /\ pc = "addon"
    /\ v \in 1..Len(run.voices)
    /\ run.voices[v].js = "live"
    /\ AddonLeaves([VoiceWrapReset(run, v) EXCEPT !.voices[v].freeCalled = TRUE],
                   [NoAddonCall EXCEPT !.op = "free",
                        !.freedVoice = (run.voices[v].handle_ = NullHandle),
                        !.cApi = IF run.voices[v].handle_ = NullHandle THEN <<>>
                                 ELSE <<"pocket_tts_free_voice">>])

\* ~PocketTTSWrap, run by the collector on an object no script holds
FinalizePocketTTS(e) ==
    /\ pc = "addon"
    /\ e \in 1..Len(run.engines)
    /\ run.engines[e].js # "finalized"
    /\ run' = [PocketTTSWrapReset(run, e) EXCEPT !.engines[e].js = "finalized"]
    /\ UNCHANGED <<config, unit, rng, voiceCache, cancelRequested, pc, gen, prevGen, fs,
                   call, hist>>

\* ~VoiceWrap, run by the collector on an object no script holds
FinalizeVoice(v) ==
    /\ pc = "addon"
    /\ v \in 1..Len(run.voices)
    /\ run.voices[v].js # "finalized"
    /\ run' = [VoiceWrapReset(run, v) EXCEPT !.voices[v].js = "finalized"]
    /\ UNCHANGED <<config, unit, rng, voiceCache, cancelRequested, pc, gen, prevGen, fs,
                   call, hist>>

AddonNext ==
    \/ \E created \in BOOLEAN : NewPocketTTS(created)
    \/ NewVoiceDirectly
    \/ \E e \in 1..MaxEngines, ok \in BOOLEAN : WrapEncodeVoice(e, ok)
    \/ \E e \in 1..MaxEngines, ok \in BOOLEAN : WrapEncodeVoiceFromSamples(e, ok)
    \/ \E e \in 1..MaxEngines, v \in 1..MaxVoices, ok \in BOOLEAN : WrapGenerate(e, v, ok)
    \/ \E e \in 1..MaxEngines : WrapClose(e)
    \/ \E v \in 1..MaxVoices : VoiceFree(v)
    \/ \E e \in 1..MaxEngines : FinalizePocketTTS(e)
    \/ \E v \in 1..MaxVoices : FinalizeVoice(v)

AddonSpec == AddonInit /\ [][AddonNext]_vars

----------------------------------------------------------------------------
(* The C# binding: PocketTTS.GenerateStreamingAsync *)

AsyncFrameBounds == {1, 2, 3}
AsyncChunkSizes == {1, 2, 5}

\* new BlockingCollection<(float[] data, bool isFinal)>()
NoCollection == [items |-> <<>>, addingCompleted |-> FALSE, addFailed |-> FALSE]

\* The lambda handed to GenerateStreaming, the token not cancelled:
\* chunks.Add((data, isFinal)); if (isFinal) chunks.CompleteAdding();
\* Add on a completed collection throws.
OnChunk(c, chunk) ==
    IF c.addingCompleted THEN [c EXCEPT !.addFailed = TRUE]
    ELSE [c EXCEPT !.items = Append(@, chunk.frames), !.addingCompleted = chunk.isFinal]

RECURSIVE Delivered(_, _)
Delivered(c, chunks) ==
    IF chunks = <<>> THEN c ELSE Delivered(OnChunk(c, Head(chunks)), Tail(chunks))

\* pocket_tts_generate_streaming has returned a negative count: GenerateStreaming
\* throws, the task catches and calls chunks.CompleteAdding().
TaskCaught(r, p) == p = "idle" /\ r.status = "error"

\* The collection after the callbacks of the run so far, and after the catch
BlockingCollection(r, p) ==
    IF TaskCaught(r, p) THEN [Delivered(NoCollection, r.chunks) EXCEPT !.addingCompleted = TRUE]
    ELSE Delivered(NoCollection, r.chunks)

\* The enumerator of one GenerateStreamingAsync call
NoEnumeration == [consumer |-> "none", taken |-> 0, thrown |-> FALSE]

AsyncInit ==
    /\ config \in [maxFrames : AsyncFrameBounds, framesAfterEos : 0..MaxFae,
                   temperature : {0}, lsdSteps : {LsdSteps}, loadVoiceEncoder : {TRUE}]
    /\ unit \in [eosAt : StepEosAt]
    /\ rng = 0
    /\ voiceCache = EmptyCache
    /\ cancelRequested = FALSE
    /\ pc = "idle"
    /\ run = NoStepRun
    /\ gen = NoGen
    /\ prevGen = NoGen
    /\ fs = NoFiles
    /\ call = NoEnumeration
    /\ hist = NoHist

\* await foreach (var chunk in tts.GenerateStreamingAsync(text, voice, chunkSizeFrames)):
\* the collection is created and Task.Run starts GenerateStreaming, which calls
\* pocket_tts_generate_streaming; one enumeration at a time.
StartEnumeration(chunkSizeFrames) ==
    /\ call.consumer \in {"none", "done"}
    /\ StreamingCallBegins(TRUE, chunkSizeFrames, TRUE)
    /\ call' = [NoEnumeration EXCEPT !.consumer = "enumerating"]

\* The steps of the task: the native call, its callbacks, its return
TaskStep ==
    \/ \E ok \in BOOLEAN : TextConditionerRun(ok)
    \/ \E ok \in BOOLEAN : VoicePassRun(ok)
    \/ \E ok \in BOOLEAN : TextPassRun(ok)
    \/ LoopHead
    \/ \E ok \in BOOLEAN : MainRun(ok)
    \/ \E ok \in BOOLEAN : FlowRun(ok)
    \/ \E ok \in BOOLEAN : ChunkDecodeRun(ok)
    \/ ChunkCallback(FALSE)
    \/ FlushHead
    \/ \E ok \in BOOLEAN : ResidualDecodeRun(ok)
    \/ ResidualCallback(FALSE)
    \/ CallReturns
    \/ CallThrows

\* foreach (var (data, isFinal) in chunks.GetConsumingEnumerable()) yield return data;
ConsumerTakes ==
    /\ call.consumer = "enumerating"
    /\ call.taken < Len(BlockingCollection(run, pc).items)
    /\ call' = [call EXCEPT !.taken = @ + 1]
    /\ UNCHANGED <<config, unit, rng, voiceCache, cancelRequested, pc, run, gen, prevGen,
                   fs, hist>>

\* GetConsumingEnumerable ends: the collection is empty and marked complete.
ConsumerEnds ==
    /\ call.consumer = "enumerating"
    /\ call.taken = Len(BlockingCollection(run, pc).items)
    /\ BlockingCollection(run, pc).addingCompleted
    /\ call' = [call EXCEPT !.consumer = "awaiting"]
    /\ UNCHANGED <<config, unit, rng, voiceCache, cancelRequested, pc, run, gen, prevGen,
                   fs, hist>>

\* await task; if (error != null) throw error;
AwaitTask ==
    /\ call.consumer = "awaiting"
    /\ pc = "idle"
    /\ call' = [call EXCEPT !.consumer = "done", !.thrown = TaskCaught(run, pc)]
    /\ UNCHANGED <<config, unit, rng, voiceCache, cancelRequested, pc, run, gen, prevGen,
                   fs, hist>>

ConsumerStep == ConsumerTakes \/ ConsumerEnds \/ AwaitTask

AsyncNext ==
    \/ \E chunkSizeFrames \in AsyncChunkSizes : StartEnumeration(chunkSizeFrames)
    \/ TaskStep
    \/ ConsumerStep

AsyncSpec == AsyncInit /\ [][AsyncNext]_vars

\* The task and the consumer are scheduled threads: each takes its next step
\* when it has one.
AsyncFairSpec == AsyncSpec /\ WF_vars(TaskStep) /\ WF_vars(ConsumerStep)

----------------------------------------------------------------------------
(* Helpers of the properties *)

RECURSIVE ConcatChunks(_)
ConcatChunks(callbacks) ==
    IF callbacks = <<>> THEN <<>>
    ELSE Head(callbacks).samples \o ConcatChunks(Tail(callbacks))

RECURSIVE SumCounts(_)
SumCounts(callbacks) ==
    IF callbacks = <<>> THEN 0
    ELSE Head(callbacks).sampleCount + SumCounts(Tail(callbacks))

UncancelledStream(r) ==
    StreamToEnd(StreamStart(r.text, r.voice, r.chunkSizeFrames, r.enableCancellation, r.rng0),
                r.rng0)

StreamDone == pc = "done"
GenerateDone == pc = "genDone"
Fae == config.framesAfterEos

\* The first step whose stop-logit exceeds the threshold is k, and maxFrames leaves room.
EosFirstAt(k) ==
    /\ k <= MaxEos
    /\ StopLogit(k) > EosThreshold
    /\ \A s \in 0..(k - 1) : ~(StopLogit(s) > EosThreshold)
    /\ config.maxFrames > k + Fae + 1

----------------------------------------------------------------------------
(* C1 *)

\* C1, as stated: when the stop-logit first exceeds the threshold at step k and
\* maxFrames > k + framesAfterEos + 1, generate and an uncancelled
\* generateStreaming produce exactly k + framesAfterEos + 1 latent frames.
C1_GraceWindowPlusOne ==
    \A k \in 0..MaxEos :
        EosFirstAt(k) =>
            /\ GenerateDone => Len(gen.latents) = k + Fae + 1
            /\ (StreamDone /\ run.exit # "cancel") => Len(run.frames) = k + Fae + 1

\* C1, amended: under the same condition generate and an uncancelled
\* generateStreaming produce exactly k + framesAfterEos latent frames (the frames
\* of steps 0 .. k + framesAfterEos - 1; the step k + framesAfterEos runs the
\* primary unit and breaks before it appends).
C1_GraceWindow ==
    \A k \in 0..MaxEos :
        EosFirstAt(k) =>
            /\ GenerateDone => Len(gen.latents) = k + Fae
            /\ (StreamDone /\ run.exit # "cancel") => Len(run.frames) = k + Fae

C1_Witness ==
    /\ GenerateDone
    /\ EosFirstAt(3)
    /\ Fae = 1
    /\ Len(gen.latents) = 4
    /\ gen.eosStep = 3

----------------------------------------------------------------------------
(* C2 *)

\* C2: at temperature 0, a generateStreaming run during which cancelStreaming
\* was never called returns the length of generate's waveform for the same text
\* and voice, and its chunks concatenated in delivery order are that waveform.
C2_StreamingEqualsBatch ==
    (StreamDone /\ ~run.cancelCalled /\ config.temperature = 0) =>
        LET batch == GenerateRun(run.text, run.voice, run.rng0)
        IN /\ run.ret = Len(batch.audio)
           /\ ConcatChunks(run.callbacks) = batch.audio

----------------------------------------------------------------------------
(* C3 *)

\* C3: in a generateStreaming run during which cancelStreaming was never called
\* and that generated at least one frame, the last callback carries isFinal = true
\* and no other callback does.
C3_FinalFlagOnLastCallback ==
    (StreamDone /\ ~run.cancelCalled /\ Len(run.frames) >= 1) =>
        /\ run.callbacks # <<>>
        /\ \A i \in 1..Len(run.callbacks) :
              run.callbacks[i].isFinal <=> (i = Len(run.callbacks))

----------------------------------------------------------------------------
(* C4 *)

\* C4: with cancellation enabled, at most one invocation of the primary unit for
\* an autoregressive step happens after cancelStreaming was called during the run.
C4_AtMostOneStepAfterCancel ==
    run.enableCancellation => run.arAfterCancel <= 1

C4_Witness ==
    /\ StreamDone
    /\ run.enableCancellation
    /\ run.cancelCalled
    /\ run.exit = "cancel"
    /\ run.arAfterCancel = 1
    /\ run.callbacks # <<>>

----------------------------------------------------------------------------
(* C5 *)

\* C5: once the loop has exited on a positive cancellation check, no frame is
\* appended, the decode unit is not invoked and no callback is issued any more,
\* and the call returns the total of the samples delivered before the check.
C5_CancelDiscardsResidual ==
    run.exit = "cancel" =>
        /\ Len(run.frames) = run.atCancel.frames
        /\ Len(run.callbacks) = run.atCancel.callbacks
        /\ run.decodeCalls = run.atCancel.decodeCalls
        /\ StreamDone => run.ret = run.atCancel.totalSamples

C5_Witness ==
    /\ StreamDone
    /\ run.exit = "cancel"
    /\ run.pendingLatents # <<>>
    /\ run.callbacks # <<>>
    /\ run.ret > 0

----------------------------------------------------------------------------
(* C6 *)

\* C6: the total generateStreaming returns is the sum of the sample counts passed
\* to the callbacks of the run, however the run ended.
C6_TotalIsSumOfChunks ==
    StreamDone => run.ret = SumCounts(run.callbacks)

C6_Witness ==
    /\ StreamDone
    /\ Len(run.callbacks) >= 2
    /\ run.callbacks[Len(run.callbacks)].isFinal
    /\ run.ret = Len(run.frames) * SamplesPerLatent

----------------------------------------------------------------------------
(* C7 *)

\* C7: with enableCancellation false, the callbacks delivered and the total
\* returned are those of the same run without any cancelStreaming call.
C7_CancelIgnoredWhenDisabled ==
    (StreamDone /\ ~run.enableCancellation) =>
        LET same == UncancelledStream(run)
        IN /\ run.callbacks = same.callbacks
           /\ run.ret = same.ret

----------------------------------------------------------------------------
(* C8 *)

\* C8: at temperature 0 the noise of every frame is the zero vector, the random
\* generator is never drawn from, and a generate call returns the latent frames
\* and the waveform an earlier generate call with the same text and voice returned.
C8_Deterministic ==
    config.temperature = 0 =>
        /\ rng = 0
        /\ \A i \in 1..Len(gen.latents) : gen.latents[i].x0 = 0
        /\ (GenerateDone /\ prevGen.text = gen.text /\ prevGen.voice = gen.voice) =>
              /\ gen.latents = prevGen.latents
              /\ gen.audio = prevGen.audio

C8_Witness ==
    /\ GenerateDone
    /\ config.temperature = 0
    /\ prevGen.text = gen.text
    /\ prevGen.voice = gen.voice
    /\ Len(gen.latents) >= 2
    /\ cancelRequested

----------------------------------------------------------------------------
(* C9 *)

\* C9: with maxFrames = 0 generate invokes the primary unit for the two
\* conditioning passes only, produces no latent frame, never invokes the decode
\* unit and returns an empty waveform; generateStreaming invokes no callback and
\* returns 0.
C9_ZeroFrames ==
    config.maxFrames = 0 =>
        /\ GenerateDone =>
              /\ gen.mainCalls = 2
              /\ gen.arSteps = 0
              /\ gen.latents = <<>>
              /\ gen.decodeCalls = 0
              /\ gen.audio = <<>>
        /\ run.callbacks = <<>>
        /\ StreamDone => run.ret = 0

C9_Witness ==
    /\ GenerateDone
    /\ config.maxFrames = 0
    /\ gen.mainCalls = 2
    /\ gen.audio = <<>>

----------------------------------------------------------------------------
(* C10 *)

\* C10: with maxFrames = 1 and temperature 0 generate produces one latent frame,
\* or none when the stop-logit of step 0 exceeds the threshold and
\* framesAfterEos = 0; the waveform is empty exactly when no frame was produced.
C10_SingleFrame ==
    (GenerateDone /\ config.maxFrames = 1 /\ config.temperature = 0) =>
        /\ Len(gen.latents) = IF StopLogit(0) > EosThreshold /\ Fae = 0 THEN 0 ELSE 1
        /\ (gen.audio = <<>>) <=> (gen.latents = <<>>)

C10_Witness ==
    /\ GenerateDone
    /\ config.maxFrames = 1
    /\ config.temperature = 0
    /\ StopLogit(0) > EosThreshold
    /\ Fae = 0
    /\ gen.latents = <<>>

----------------------------------------------------------------------------
(* Helpers of the codec properties *)

LoadedFile == fs[call.path]
Loaded == call.op = "loadWav"
FailsNamingFile ==
    /\ call.out.status = "error"
    /\ call.out.path = call.path
    /\ call.out.samples = <<>>

\* the file holds a whole fmt chunk with these fields
HasFmt(file, fmt) ==
    \E i \in 1..Len(file.chunks) :
        /\ file.chunks[i].id = "fmt "
        /\ file.chunks[i].size >= WavFmtChunkSize
        /\ file.chunks[i].present >= WavFmtChunkSize
        /\ file.chunks[i].fmt = fmt

SupportedPair(fmt) ==
    \/ fmt.audioFormat = 3 /\ fmt.bitsPerSample = 32
    \/ fmt.audioFormat = 1 /\ fmt.bitsPerSample = 16
    \/ fmt.audioFormat = 1 /\ fmt.bitsPerSample = 24

DataBeforeFmt(file) ==
    \E i \in 1..Len(file.chunks) :
        /\ file.chunks[i].id = "data"
        /\ \A j \in 1..(i - 1) : file.chunks[j].id # "fmt "

\* a fmt or data chunk declares more bytes than the file holds
TruncatedChunk(file) ==
    \E i \in 1..Len(file.chunks) :
        /\ file.chunks[i].id \in {"fmt ", "data"}
        /\ file.chunks[i].present < file.chunks[i].size

----------------------------------------------------------------------------
(* C11 *)

\* C11: resample called with equal input and output rates returns its input,
\* element for element and of the same length, the empty signal included.
C11_ResampleIdentity ==
    (call.op = "resample" /\ call.inRate = call.outRate) =>
        /\ call.out.status = "ok"
        /\ call.out.samples = call.x

C11_Witness ==
    /\ call.op = "resample"
    /\ call.inRate = call.outRate
    /\ Len(call.x) = MaxLen
    /\ Peak(call.x) > TARGET_PEAK
    /\ call.out.samples = call.x

----------------------------------------------------------------------------
(* C12 *)

SavedAtTarget ==
    /\ Loaded
    /\ call.path = OutPath
    /\ call.outRate = TARGET_SAMPLE_RATE
    /\ LoadedFile = saveWav(call.x, TARGET_SAMPLE_RATE)

\* C12, as stated: loadWav at 24000 of the file saveWav(x, 24000) wrote returns
\* a signal of the length of x whose samples are those of x, for every signal x.
C12_RoundTrip ==
    SavedAtTarget =>
        /\ call.out.status = "ok"
        /\ call.out.samples = call.x

\* C12, amended: loadWav at 24000 of the file saveWav(x, 24000) wrote returns x
\* itself when x is not empty and its absolute peak is at most 0.85; a louder x
\* comes back as normalize(x), and the empty x makes loadWav fail with
\* "No audio data found" naming the file.
C12_RoundTripUpToNormalize ==
    SavedAtTarget =>
        /\ (call.x # <<>> /\ Peak(call.x) <= TARGET_PEAK) =>
              (call.out.status = "ok" /\ call.out.samples = call.x)
        /\ (call.x # <<>> /\ Peak(call.x) > TARGET_PEAK) =>
              (call.out.status = "ok" /\ call.out.samples = normalize(call.x))
        /\ call.x = <<>> =>
              (FailsNamingFile /\ call.out.what = "No audio data found")

C12_Witness ==
    /\ SavedAtTarget
    /\ Len(call.x) = MaxLen
    /\ Peak(call.x) = TARGET_PEAK
    /\ call.out.status = "ok"
    /\ call.out.samples = call.x

----------------------------------------------------------------------------
(* C13 *)

\* C13: normalize returns its input when the absolute peak is at most 0.85 and
\* otherwise every sample times 0.85 / peak; the signal normalize returns, and
\* so every signal loadWav returns, has absolute peak at most 0.85, and
\* normalize applied to it again changes nothing.
C13_NormalizeNeverAmplifies ==
    /\ call.op = "normalize" =>
          LET maxVal == Peak(call.x)
              out == call.out.samples
          IN /\ maxVal <= TARGET_PEAK => out = call.x
             /\ maxVal > TARGET_PEAK =>
                   /\ Len(out) = Len(call.x)
                   /\ \A i \in 1..Len(out) :
                         out[i] = FMul(call.x[i], FDiv(TARGET_PEAK, maxVal))
             /\ Peak(out) <= TARGET_PEAK
             /\ normalize(out) = out
    /\ (Loaded /\ call.out.status = "ok") => Peak(call.out.samples) <= TARGET_PEAK

\* The peak 1.625 is scaled to a float above TARGET_PEAK, and normalize applied
\* to the result scales it once more.
C13_Witness ==
    /\ call.op = "normalize"
    /\ Peak(call.x) > TARGET_PEAK
    /\ Peak(call.out.samples) > TARGET_PEAK
    /\ normalize(call.out.samples) # call.out.samples

----------------------------------------------------------------------------
(* C14 *)

\* C14: loadWav fails with an error naming the file, and returns no samples, for
\* every file whose fmt chunk has a format tag other than 1 and 3, a channel
\* count other than 1 and 2, or a (format, bits per sample) pair other than
\* (3,32), (1,16), (1,24), and for every file whose data chunk comes before any
\* fmt chunk; it fails in no other way on such a file.
C14_UnsupportedFileFails ==
    (/\ Loaded
     /\ LoadedFile.exists
     /\ \/ DataBeforeFmt(LoadedFile)
        \/ \E fmt \in FmtRecords :
              /\ HasFmt(LoadedFile, fmt)
              /\ \/ fmt.audioFormat \notin {1, 3}
                 \/ fmt.numChannels \notin {1, 2}
                 \/ ~SupportedPair(fmt))
    => FailsNamingFile

\* A fmt chunk of format 1, one channel and fewer than 8 bits per sample, then
\* a data chunk: the process is stopped by the division by zero.
C14_Witness ==
    /\ Loaded
    /\ \E fmt \in FmtRecords :
          /\ HasFmt(LoadedFile, fmt)
          /\ fmt.audioFormat = 1
          /\ fmt.numChannels = 1
          /\ fmt.bitsPerSample = 0
    /\ call.out.status = "trap"

----------------------------------------------------------------------------
(* C15 *)

\* C15: when the file ends before the bytes declared in the size field of its
\* fmt chunk or of its data chunk, loadWav fails with an error naming the file
\* and returns no signal built from the bytes that were present.
C15_TruncatedChunkFails ==
    (Loaded /\ LoadedFile.exists /\ LoadedFile.magic /\ TruncatedChunk(LoadedFile))
    => FailsNamingFile

\* A float file whose data chunk declares two samples and holds one: loadWav
\* returns the sample that was present followed by a zero.
C15_Witness ==
    /\ Loaded
    /\ HasFmt(LoadedFile, GoodFmt)
    /\ TruncatedChunk(LoadedFile)
    /\ call.outRate = TARGET_SAMPLE_RATE
    /\ call.out.status = "ok"
    /\ Len(call.out.samples) = 2
    /\ call.out.samples[1] # 0
    /\ call.out.samples[2] = 0

----------------------------------------------------------------------------
(* Helpers of the call properties *)

GenerateCalled == call.op \in {"generate", "generateWithEmbeddings"}
StreamingCalled == call.op = "generateStreaming"

\* Nothing of a session happened in the call made last: no state created, no
\* unit invoked, no callback invoked.
SessionNeverStarted ==
    /\ GenerateCalled =>
          /\ gen.stateInits = 0
          /\ gen.textConditionerCalls = 0
          /\ gen.mainCalls = 0
          /\ gen.flowCalls = 0
          /\ gen.decodeCalls = 0
          /\ gen.latents = <<>>
          /\ gen.audio = <<>>
    /\ StreamingCalled =>
          /\ run.stateInits = 0
          /\ run.textConditionerCalls = 0
          /\ run.lmState = initLmState
          /\ run.arSteps = 0
          /\ run.flowCalls = 0
          /\ run.decodeCalls = 0
          /\ run.callbacks = <<>>

\* The call made last had its voice and its callback: generate found the voice in
\* the cache or encoded it, generateStreaming was given a callback.
VoiceAndCallbackGiven ==
    /\ call.op = "generate" => voiceCache[call.path] # NoEmbedding
    /\ StreamingCalled => call.callback

----------------------------------------------------------------------------
(* C16 *)

\* C16, as stated: generate, generateWithEmbeddings and generateStreaming called with
\* an empty or whitespace-only text fail with 'Text cannot be empty', no recurrent
\* state initialised, no unit invoked, no callback invoked.
C16_BlankTextRejected ==
    (GenerateCalled \/ StreamingCalled) /\ call.text \in BlankTexts =>
        /\ call.status = "error"
        /\ call.what = "Text cannot be empty"
        /\ SessionNeverStarted

\* C16, amended: a call with an empty or whitespace-only text always fails before
\* the session starts; the error is 'Text cannot be empty' when the voice of generate
\* could be resolved and generateStreaming was given a callback, which the two tests
\* that precede the tokenizer require.
C16_BlankTextRejectedAfterVoice ==
    (GenerateCalled \/ StreamingCalled) /\ call.text \in BlankTexts =>
        /\ call.status = "error"
        /\ SessionNeverStarted
        /\ VoiceAndCallbackGiven => call.what = "Text cannot be empty"

\* generate with a whitespace-only text encoded its voice and then surfaced the
\* tokenizer's error.
C16_Witness ==
    /\ call.op = "generate"
    /\ call.text = " \t\n\r"
    /\ call.encoderRuns = 1
    /\ call.status = "error"
    /\ call.what = "Text cannot be empty"
    /\ gen.stateInits = 0

----------------------------------------------------------------------------
(* C17 *)

\* C17: once encodeVoice(p) has succeeded, every later encodeVoice(p) returns the
\* embedding that first call returned and every later generate(text, p) conditions
\* on it, neither reading the file nor running the voice encoder.
C17_Memoized ==
    call.known # NoEmbedding =>
        /\ call.op = "encodeVoice" =>
              /\ call.status = "ok"
              /\ call.embedding = call.known
              /\ call.fileReads = 0
              /\ call.encoderRuns = 0
        /\ call.op = "generate" =>
              /\ call.fileReads = 0
              /\ call.encoderRuns = 0
              /\ gen.status = "ok" => gen.voice = call.known

\* encodeVoice on a key it had succeeded on returned another embedding.
C17_Witness ==
    /\ call.op = "encodeVoice"
    /\ call.status = "ok"
    /\ call.known # NoEmbedding
    /\ call.embedding # call.known

----------------------------------------------------------------------------
(* C18 *)

\* What the voice encoder computes from the samples saved by a call
EncodedFrom(audio) ==
    encodeVoice(EmptyCache, TempVoicePath,
                [NoFiles EXCEPT ![TempVoicePath] = saveWav(audio, TARGET_SAMPLE_RATE)],
                "continue", SteadyInterp).embedding

FromSamplesReturned ==
    /\ call.op = "pocket_tts_encode_voice_from_samples"
    /\ call.status = "ok"

\* C18: the voice handle pocket_tts_encode_voice_from_samples returns holds the
\* embedding of the samples passed to that call.
C18_EncodesOwnSamples ==
    FromSamplesReturned => call.embedding = EncodedFrom(call.audio)

\* A second call with other samples returned the embedding of the first call's samples.
C18_Witness ==
    /\ FromSamplesReturned
    /\ call.known # NoEmbedding
    /\ call.embedding = call.known
    /\ call.embedding # EncodedFrom(call.audio)

----------------------------------------------------------------------------
(* C19 *)

CreatedByCApi == hist.cconfig # NoCConfig

\* Every frame of the call made last was integrated from all-zero noise, and no
\* noise was drawn.
ZeroNoise ==
    /\ rng = call.rngBefore
    /\ GenerateCalled => \A i \in 1..Len(gen.latents) : gen.latents[i].x0 = 0
    /\ StreamingCalled => \A i \in 1..Len(run.frames) : run.frames[i].x0 = 0

\* C19: an engine made by pocket_tts_create from a non-NULL config has the
\* temperature of that config, its lsd_steps and its max_frames (where given, that
\* is positive), and with temperature 0 its calls use all-zero noise.
C19_CreateUsesConfig ==
    CreatedByCApi =>
        /\ config.temperature = hist.cconfig.temperature
        /\ hist.cconfig.lsd_steps > 0 => config.lsdSteps = hist.cconfig.lsd_steps
        /\ hist.cconfig.max_frames > 0 => config.maxFrames = hist.cconfig.max_frames
        /\ hist.cconfig.temperature = 0 /\ (GenerateCalled \/ StreamingCalled) => ZeroNoise

\* An engine created with temperature 0 generated a frame from drawn noise.
C19_Witness ==
    /\ CreatedByCApi
    /\ hist.cconfig.temperature = 0
    /\ call.op = "generate"
    /\ gen.status = "ok"
    /\ gen.latents # <<>>
    /\ gen.latents[1].x0 # 0
    /\ rng > call.rngBefore

----------------------------------------------------------------------------
(* C20 *)

\* The frames of a call were generated from a primary-unit state that had absorbed
\* the voice and the text of this call and nothing else.
FramesFromFreshState(frames, voice, text) ==
    \A i \in 1..Len(frames) :
        /\ frames[i].ctx = <<voice, runTextConditioner(encode(text).ids)>>
        /\ frames[i].n = i - 1

\* The first sample of a call was rendered from a decode-unit state that had
\* absorbed no frame.
RenderedFromFreshState(audio) ==
    audio # <<>> => audio[1].from = [n |-> 0, last |-> NanLatent]

\* C20: in every generate, generateWithEmbeddings and generateStreaming call the
\* primary unit starts from the all-zero state (its invocations of the call are the
\* only ones the state has seen) and the first decode invocation is fed a fresh
\* decode state, whatever calls came before.
C20_StateIsCallScoped ==
    /\ GenerateCalled /\ gen.status = "ok" =>
          /\ gen.mainCalls = 2 + gen.arSteps
          /\ FramesFromFreshState(gen.latents, gen.voice, gen.text)
          /\ RenderedFromFreshState(gen.audio)
    /\ StreamingCalled /\ run.status = "ok" =>
          /\ run.lmState.calls = 2 + run.arSteps
          /\ run.lmState.ctx = <<run.voice, runTextConditioner(encode(run.text).ids)>>
          /\ FramesFromFreshState(run.frames, run.voice, run.text)
          /\ run.callbacks # <<>> => RenderedFromFreshState(run.callbacks[1].samples)

\* A streaming call delivered audio on an instance that had already run generate and
\* generateWithEmbeddings and drawn noise.
C20_Witness ==
    /\ StreamingCalled
    /\ run.status = "ok"
    /\ run.callbacks # <<>>
    /\ run.callbacks[1].samples # <<>>
    /\ voiceCache[EmbeddingsKey] # NoEmbedding
    /\ \E p \in VoicePaths : voiceCache[p] # NoEmbedding
    /\ call.rngBefore > 0

----------------------------------------------------------------------------
(* C21 *)

\* The steps 0 .. steps - 1 whose stop-logit exceeds the threshold
EosSteps(steps) == {s \in 0..(steps - 1) : StopLogit(s) > EosThreshold}

\* The first of them, -1 when there is none
FirstEosStep(steps) ==
    IF EosSteps(steps) = {} THEN -1
    ELSE CHOOSE s \in EosSteps(steps) : \A u \in EosSteps(steps) : s <= u

\* The loop ended by the stop rule or by the bound: frames, invocations of the
\* primary unit and invocations of the flow unit.
StoppedByRule(eosStep, frames, arSteps, flowCalls) ==
    IF eosStep >= 0 /\ eosStep + Fae < config.maxFrames
    THEN /\ frames = eosStep + Fae
         /\ arSteps = frames + 1
         /\ flowCalls = config.lsdSteps * frames
    ELSE /\ frames = config.maxFrames
         /\ arSteps = frames
         /\ flowCalls = config.lsdSteps * frames

\* C21: eosStep is the first step whose stop-logit exceeded -4.0 among the steps
\* run so far (-1 when none did) at every point of a call, so it is assigned once
\* and never changed; the loop ends at step eosStep + framesAfterEos, where the
\* primary unit is invoked and neither the flow unit nor an append follows; when
\* maxFrames comes first the loop ends there whatever eosStep holds.
C21_EosStopRule ==
    /\ pc \in {"loop", "body", "flush", "done"} =>
          run.eosStep = FirstEosStep(run.arSteps)
    /\ (StreamDone /\ run.exit # "cancel") =>
          /\ StoppedByRule(run.eosStep, Len(run.frames), run.arSteps, run.flowCalls)
          /\ run.exit = IF run.eosStep >= 0 /\ run.eosStep + Fae < config.maxFrames
                        THEN "eos" ELSE "max"
    /\ GenerateDone =>
          /\ gen.eosStep = FirstEosStep(gen.arSteps)
          /\ StoppedByRule(gen.eosStep, Len(gen.latents), gen.arSteps, gen.flowCalls)

\* A streaming run whose stop-logit exceeded at step 2 and again at step 3 kept
\* eosStep = 2 and ended at step 3 with three frames and four invocations.
C21_Witness ==
    /\ StreamDone
    /\ run.exit = "eos"
    /\ Fae = 1
    /\ run.eosStep = 2
    /\ StopLogit(3) > EosThreshold
    /\ Len(run.frames) = 3
    /\ run.arSteps = 4
    /\ config.maxFrames > 4

----------------------------------------------------------------------------
(* C22 *)

\* What the primary unit was fed, invocation by invocation: the voice embedding
\* with an empty sequence, the text embedding with an empty sequence, then one
\* latent frame with an empty context per autoregressive step.
VoiceThenText(inputs, voice, text, arSteps) ==
    /\ Len(inputs) = 2 + arSteps
    /\ inputs[1] = [sequence |-> <<>>, context |-> <<voice>>]
    /\ inputs[2] = [sequence |-> <<>>,
                    context |-> <<runTextConditioner(encode(text).ids)>>]
    /\ \A k \in 3..Len(inputs) :
          /\ Len(inputs[k].sequence) = 1
          /\ inputs[k].context = <<>>

\* C22: in every generate and generateStreaming call the first invocation of the
\* primary unit carries the voice embedding and no latent, the second the text
\* embedding and no latent, every later one a single latent frame and no context;
\* so no autoregressive step comes before a conditioning pass and the text never
\* comes before the voice.
C22_VoiceThenText ==
    /\ pc \in {"loop", "body", "flush", "done"} =>
          VoiceThenText(run.lmState.inputs, run.voice, run.text, run.arSteps)
    /\ GenerateDone =>
          VoiceThenText(gen.mainInputs, gen.voice, gen.text, gen.arSteps)

\* A generate call ran three autoregressive steps after the two conditioning passes.
C22_Witness ==
    /\ GenerateDone
    /\ Len(gen.mainInputs) = 5
    /\ gen.mainInputs[1].context = <<gen.voice>>
    /\ gen.mainInputs[5].context = <<>>
    /\ Len(gen.latents) = 3

----------------------------------------------------------------------------
(* C23 *)

\* The latent fed at autoregressive step s (the invocation 3 + s of the call) is
\* the sentinel at step 0 and the frame appended at step s - 1 afterwards.
LatentsThreaded(inputs, frames) ==
    \A s \in 0..(Len(inputs) - 3) :
        inputs[3 + s].sequence = IF s = 0 THEN <<NanLatent>> ELSE <<frames[s]>>

\* The frame at position i is the one made at step i - 1 from the latent fed there.
InStepOrder(frames) ==
    \A i \in 1..Len(frames) :
        /\ frames[i].n = i - 1
        /\ frames[i].prev = IF i = 1 THEN NanLatent.x0 ELSE frames[i - 1].x0

\* C23: the primary unit is fed the NaN sentinel at step 0 and at every later
\* step the frame appended at the step before; the frames generate returns are,
\* position by position, the frames that were fed back, so the sequence was only
\* extended at its end.
C23_LatentThreading ==
    /\ pc \in {"loop", "body", "flush", "done"} =>
          LatentsThreaded(run.lmState.inputs, run.frames)
    /\ GenerateDone =>
          /\ LatentsThreaded(gen.mainInputs, gen.latents)
          /\ InStepOrder(gen.latents)

\* A stochastic generate call: three frames of distinct noise, the second one fed
\* at the step that made the third.
C23_Witness ==
    /\ GenerateDone
    /\ config.temperature > 0
    /\ Len(gen.latents) = 3
    /\ gen.latents[1].x0 # gen.latents[2].x0
    /\ gen.mainInputs[3].sequence = <<NanLatent>>
    /\ gen.mainInputs[5].sequence = <<gen.latents[2]>>

----------------------------------------------------------------------------
(* C24 *)

\* The vector fed at sub-step j (counted from 1): the noise of the frame advanced
\* by the directions of the sub-steps before j
AdvancedTo(x0, j) ==
    [x0 |-> x0,
     subs |-> [k \in 1..(j - 1) |-> <<<<k - 1, config.lsdSteps>>, <<k, config.lsdSteps>>>>]]

\* The invocations of the flow unit, frame by frame
FlowSchedule(trace, frames, flowCalls) ==
    /\ Len(trace) = Len(frames)
    /\ flowCalls = config.lsdSteps * Len(frames)
    /\ \A i \in 1..Len(trace) :
          /\ Len(trace[i]) = config.lsdSteps
          /\ \A j \in 1..Len(trace[i]) :
                /\ trace[i][j].s = <<j - 1, config.lsdSteps>>
                /\ trace[i][j].t = <<j, config.lsdSteps>>
                /\ trace[i][j].c = [ctx |-> frames[i].ctx, n |-> frames[i].n,
                                    prev |-> frames[i].prev]
                /\ trace[i][j].x = AdvancedTo(frames[i].x0, j)

\* C24: for every appended frame the flow unit is invoked lsdSteps times, at
\* sub-steps j = 0..lsdSteps-1 in increasing order with s = j / lsdSteps and
\* t = s + 1 / lsdSteps, each time with the conditioning of the step and the
\* vector as the sub-steps before left it; it is invoked for no other step.
C24_FlowSchedule ==
    /\ pc \in {"loop", "body", "flush", "done"} =>
          FlowSchedule(run.flowTrace, run.frames, run.flowCalls)
    /\ GenerateDone =>
          FlowSchedule(gen.flowTrace, gen.latents, gen.flowCalls)

\* A generate call ended by the stop rule: one more invocation of the primary
\* unit than frames, lsdSteps invocations of the flow unit for each frame, the
\* last sub-step fed a vector the sub-steps before had advanced.
C24_Witness ==
    /\ GenerateDone
    /\ Len(gen.latents) = 2
    /\ gen.arSteps = 3
    /\ Len(gen.flowTrace) = 2
    /\ Len(gen.flowTrace[2]) = config.lsdSteps
    /\ gen.flowTrace[2][config.lsdSteps].x.subs # <<>>

----------------------------------------------------------------------------
(* C25 *)

\* The frames an invocation of the decode unit was fed
GroupFrames(latents, group) == SubSeqFrom(latents, group.i, group.numFrames)

\* The audio of the invocations from the k-th on, in order
RECURSIVE GroupAudioFrom(_, _, _)
GroupAudioFrom(latents, groups, k) ==
    IF k > Len(groups) THEN <<>>
    ELSE runMimiDecoder(GroupFrames(latents, groups[k]), groups[k].state).audio
         \o GroupAudioFrom(latents, groups, k + 1)

\* C25: for n >= 1 frames decodeLatents invokes the decode unit ceil(n / 15)
\* times, on the consecutive groups of 15 frames and a last group of n mod 15
\* frames when that is not zero; the first invocation is fed the fresh state and
\* every later one the state the invocation before returned; the waveform is the
\* audio of the invocations in order.
C25_BatchDecodePartition ==
    (GenerateDone /\ gen.latents # <<>>) =>
        LET n == Len(gen.latents)
            groups == gen.decodeGroups
        IN /\ gen.decodeCalls = CeilDiv(n, DecodeBatch)
           /\ Len(groups) = gen.decodeCalls
           /\ \A k \in 1..Len(groups) :
                 /\ groups[k].i = DecodeBatch * (k - 1)
                 /\ groups[k].numFrames =
                       IF k < Len(groups) \/ n % DecodeBatch = 0
                       THEN DecodeBatch ELSE n % DecodeBatch
                 /\ groups[k].state =
                       IF k = 1 THEN initDecoderState
                       ELSE runMimiDecoder(GroupFrames(gen.latents, groups[k - 1]),
                                           groups[k - 1].state).state
           /\ gen.audio = GroupAudioFrom(gen.latents, groups, 1)

\* Seventeen frames: a group of fifteen, then a group of two fed the state the
\* first invocation returned.
C25_Witness ==
    /\ GenerateDone
    /\ Len(gen.latents) = DecodeBatch + 2
    /\ gen.decodeCalls = 2
    /\ gen.decodeGroups[2].numFrames = 2
    /\ gen.decodeGroups[2].state.n = DecodeBatch
    /\ Len(gen.audio) = (DecodeBatch + 2) * SamplesPerLatent

----------------------------------------------------------------------------
(* C26 *)

\* The state the decode unit returns once it has decoded the frames 1 .. k of the run
DecodedUpTo(frames, k) ==
    IF k = 0 THEN initDecoderState ELSE [n |-> k, last |-> frames[k]]

\* The samples delivered so far, each with the decode state its frame was
\* rendered from
StreamedSamples == ConcatChunks(run.callbacks)

\* C26: in generateStreaming every decode invocation after the first of the run,
\* in the loop or in the residual flush and for every 15-frame sub-batch, is fed
\* the state the decode invocation before it returned: every frame is rendered
\* from the state that holds all the frames of the run before it.
C26_StreamingDecodeThreaded ==
    pc \in {"loop", "body", "flush", "done"} =>
        \A i \in 1..Len(StreamedSamples) :
            StreamedSamples[i].from =
                DecodedUpTo(run.frames, StreamedSamples[i].frame.n)

\* The residual flush decoded sixteen frames or more: the second sub-batch was
\* fed the state the flush began with, not the state the first sub-batch returned.
C26_Witness ==
    /\ StreamDone
    /\ run.exit = "max"
    /\ run.callbacks # <<>>
    /\ LET final == run.callbacks[Len(run.callbacks)].samples
       IN /\ Len(final) > DecodeBatch * SamplesPerLatent
          /\ final[DecodeBatch * SamplesPerLatent + 1].from = final[1].from

----------------------------------------------------------------------------
(* C27 *)

\* The sites where a unit is invoked with the state map
InvocationSites == {"runFlowLmMainStep", "decode", "flush"}

\* The state tensors among the inputs of the last invocation
StateFed == SubSeq(run.inputs, Len(OtherInputs(unit.name)) + 1, Len(run.inputs))

\* C27: at every invocation of a stateful unit the inputs are the non-state
\* inputs followed by the state tensors, one for every slot of the state map, each
\* the tensor of its slot, in strictly ascending order of the number in the slot
\* name, whatever the order the session declares them in and whatever their order
\* as strings.
C27_CanonicalStateOrder ==
    run.site \in InvocationSites =>
        /\ Len(run.inputs) = Len(OtherInputs(unit.name)) + Cardinality(DOMAIN run.before)
        /\ \A i \in 1..Len(OtherInputs(unit.name)) :
               run.inputs[i].name = OtherInputs(unit.name)[i]
        /\ {StateFed[i].name : i \in 1..Len(StateFed)} = DOMAIN run.before
        /\ \A i \in 1..Len(StateFed) :
               /\ StateFed[i].name.stem = "state_"
               /\ StateFed[i].value = createStateValue(run.before[StateFed[i].name])
        /\ \A i \in 1..(Len(StateFed) - 1) :
               Stoi(StateFed[i].name.digits) < Stoi(StateFed[i + 1].name.digits)

\* An invocation of a unit that declares state_10 before state_2 and state_2
\* before state_0: the three are fed as state_0, state_2, state_10, while the map
\* holds them as state_0, state_10, state_2.
C27_Witness ==
    /\ run.site = "decode"
    /\ run.invocations = 2
    /\ Len(unit.inputs) = 4
    /\ [i \in 1..3 |-> unit.inputs[i + 1].name.digits] = <<<<1, 0>>, <<2>>, <<0>>>>
    /\ [i \in 1..Len(StateFed) |-> StateFed[i].name.digits] = <<<<0>>, <<2>>, <<1, 0>>>>
    /\ [i \in 1..3 |-> MapOrder(run.state)[i].digits] = <<<<0>>, <<1, 0>>, <<2>>>>

----------------------------------------------------------------------------
(* C28 *)

\* The slots of the state map whose buffer has another length than the product
\* of the dimensions of their shape
Mismatched(state) ==
    {name \in DOMAIN state : state[name].data.size # ElementCount(state[name].shape)}

\* C28 as stated: once initState has made the state map, and after every update
\* from the outputs of an invocation, the buffer of every slot has as many
\* elements as the product of the dimensions of the shape stored with it, for
\* every declared shape, those with dynamic dimensions (resolved to 0) among them.
C28_BufferLengthMatchesShape ==
    pc = "stateful" => Mismatched(run.state) = {}

\* Right after initState of a session that declares state_2 with the shape
\* (1, dynamic, 2): the shape stored is (1, 0, 2), of product 0, and the buffer
\* has 2 elements.
C28_Witness ==
    /\ pc = "stateful"
    /\ run.site = "initState"
    /\ TensorName("state_", <<2>>) \in DOMAIN run.state
    /\ run.state[TensorName("state_", <<2>>)].shape = <<1, 0, 2>>
    /\ run.state[TensorName("state_", <<2>>)].data.size = 2
    /\ TensorName("state_", <<2>>) \in Mismatched(run.state)

\* C28, amended: the buffer made by initState has as many elements as the product
\* of the positive dimensions of the stored shape (1 when there is none), which
\* is the product of the dimensions when none of them is 0; a slot replaced by
\* an update has as many elements as the product of the dimensions of its shape.
C28_LengthAfterInitAndUpdate ==
    pc = "stateful" =>
        \A name \in DOMAIN run.state :
            /\ run.state[name].data.fill = <<"zeros">> =>
                   run.state[name].data.size = TotalSize(run.state[name].shape)
            /\ run.state[name].data.fill # <<"zeros">> => name \notin Mismatched(run.state)
            /\ (\A d \in 1..Len(run.state[name].shape) : run.state[name].shape[d] > 0)
                   => name \notin Mismatched(run.state)

----------------------------------------------------------------------------
(* C29 *)

\* The state output of the last invocation for a slot
SuccessorOf(stateName) ==
    CHOOSE out \in {run.outputs[i] : i \in 1..Len(run.outputs)} :
        /\ out.name.stem = "out_state_"
        /\ Stoi(out.name.digits) = Stoi(stateName.digits)

\* A slot holds the tensor an output carries: its shape and its contents
Holds(entry, out) ==
    /\ entry.shape = out.shape
    /\ entry.data = [size |-> ElementCount(out.shape), fill |-> out.fill]

\* C29: after every invocation of a stateful unit, the primary one or the
\* decoder, every slot of the state map holds the tensor (shape and contents)
\* the invocation returned as the successor of the slot, none keeps what it held
\* before, and the slots are those initState made.
C29_StateReplaced ==
    (run.site \in InvocationSites /\ run.status = "ok") =>
        /\ DOMAIN run.state = DOMAIN initState(unit)
        /\ \A name \in DOMAIN run.state :
               /\ Holds(run.state[name], SuccessorOf(name))
               /\ run.state[name] # run.before[name]

\* The decoder invoked by the residual decode after one in-loop decode: the
\* second invocation returned successors, and every slot still holds what the
\* first one left.
C29_Witness ==
    /\ run.site = "flush"
    /\ run.status = "ok"
    /\ run.invocations = 2
    /\ run.state = run.before
    /\ \A name \in DOMAIN run.state :
           /\ run.state[name].data.fill = <<"out", name.digits, 1>>
           /\ SuccessorOf(name).fill = <<"out", name.digits, 2>>

----------------------------------------------------------------------------
(* C30 *)

\* A step keeps the entry of a key: it is there afterwards with the same embedding
KeepsEntry(k) == voiceCache[k] # NoEmbedding => voiceCache'[k] = voiceCache[k]

\* C30: over any sequence of encodeVoice, generate and generateWithEmbeddings
\* calls on one instance, a key that is in the voice cache stays in it with the
\* embedding it has: no call changes or removes an entry.
C30_CacheAppendOnly == [][\A k \in VoiceKeys : KeepsEntry(k)]_vars

\* A generateWithEmbeddings call has returned on an instance where the key
\* "__embeddings__" had been served from the cache before, and the cache now has
\* another embedding under that key.
C30_Witness ==
    /\ call.op = "generateWithEmbeddings"
    /\ call.status = "ok"
    /\ call.known # NoEmbedding
    /\ voiceCache[EmbeddingsKey] = call.arg
    /\ voiceCache[EmbeddingsKey] # call.known

----------------------------------------------------------------------------
(* C31 *)

\* C31: when an invocation of a unit fails during generate or generateStreaming,
\* it is not made again, no unit is invoked and no callback is delivered after
\* it in that call, and the call ends with the error at the caller: an exception
\* for the C++ caller, -1 with the last-error message set for the C functions.
C31_NoRetryAfterFailure ==
    run.failed # "" =>
        /\ run.invoked = run.atFailure.invoked
        /\ run.callbacks = run.atFailure.callbacks
        /\ pc \in {"thrown", "idle"}
        /\ pc = "idle" =>
               IF run.api
               THEN run.status = "error" /\ run.ret = -1 /\ run.lastError # ""
               ELSE run.status = "exception"

\* pocket_tts_generate_streaming has returned -1 after the decode unit failed at
\* its second invocation, one chunk having been delivered before.
C31_Witness ==
    /\ pc = "idle"
    /\ run.op = "generateStreaming"
    /\ run.api
    /\ run.failed = "mimi_decoder"
    /\ run.invoked["mimi_decoder"] = 2
    /\ run.callbacks = 1
    /\ run.ret = -1

----------------------------------------------------------------------------
(* C32 *)

FallibleCalls == {"generate", "generateWithEmbeddings", "generateStreaming", "encodeVoice"}

\* C32: a generate, generateWithEmbeddings, generateStreaming or encodeVoice call
\* that fails leaves the voice cache and the cancellation flag as they were
\* before it.
C32_FailuresAreLocal ==
    [][(call' # call /\ call'.op \in FallibleCalls /\ call'.status # "ok")
           => (voiceCache' = voiceCache /\ cancelRequested' = cancelRequested)]_vars

\* generateWithEmbeddings has thrown for a blank text, and the voice cache holds
\* the embedding of the call under "__embeddings__", which it did not before.
C32_Witness ==
    /\ call.op = "generateWithEmbeddings"
    /\ call.text \in BlankTexts
    /\ call.status = "error"
    /\ voiceCache # call.cacheBefore
    /\ voiceCache[EmbeddingsKey] = call.arg
    /\ call.cacheBefore[EmbeddingsKey] # call.arg

----------------------------------------------------------------------------
(* C33 *)

\* The loop of the call has begun at most maxFrames iterations and appended at
\* most maxFrames frames
WithinMaxFrames ==
    /\ run.loopSteps <= config.maxFrames
    /\ run.invoked["flow_lm_main"] <= config.maxFrames + 2
    /\ Len(run.allLatents) <= config.maxFrames

\* C33: in every generate and generateStreaming call the autoregressive loop
\* takes at most maxFrames steps and appends at most maxFrames frames, and the
\* call ends when every unit invocation and every callback returns, whether the
\* stop-logit ever exceeds or not and whether cancellation is requested or not.
C33_BoundedGeneration ==
    /\ [](pc # "idle" => WithinMaxFrames)
    /\ (pc # "idle") ~> (pc = "idle")

\* A generateStreaming call has returned after maxFrames = 17 steps without the
\* stop-logit exceeding and without a cancellation.
C33_Witness ==
    /\ pc = "idle"
    /\ run.op = "generateStreaming"
    /\ run.status = "ok"
    /\ ~cancelRequested
    /\ run.eosStep < 0
    /\ config.maxFrames = DecodeBatch + 2
    /\ run.loopSteps = config.maxFrames
    /\ Len(run.allLatents) = config.maxFrames

----------------------------------------------------------------------------
(* C34 *)

\* The chunks delivered at a site
ChunksAt(site) == {k \in 1..Len(run.chunks) : run.chunks[k].site = site}

\* C34: in a generateStreaming run (chunkSizeFrames >= 1) the pending buffer
\* holds fewer than chunkSizeFrames frames when a loop iteration has ended; every
\* callback made inside the loop is given the audio of exactly chunkSizeFrames
\* frames and leaves the buffer empty; the residual sent after the loop has
\* between 1 and chunkSizeFrames - 1 frames.
C34_PendingBufferBound ==
    (run.op = "generateStreaming" /\ run.chunkSizeFrames >= 1) =>
        /\ pc \in {"loopHead", "mainStep", "flow", "flushHead", "flushDecode",
                   "flushCallback", "return"}
               => Len(run.pendingLatents) < run.chunkSizeFrames
        /\ pc \in {"decode", "callback"} => Len(run.pendingLatents) = run.chunkSizeFrames
        /\ \A k \in ChunksAt("loop") : Len(run.chunks[k].frames) = run.chunkSizeFrames
        /\ Len(run.allLatents) =
               run.chunkSizeFrames * Cardinality(ChunksAt("loop")) + Len(run.pendingLatents)
        /\ \A k \in ChunksAt("flush") :
               /\ Len(run.chunks[k].frames) >= 1
               /\ Len(run.chunks[k].frames) <= run.chunkSizeFrames - 1
               /\ k = Len(run.chunks)

\* A run of three frames with chunkSizeFrames = 2 has returned: one callback
\* inside the loop with two frames, then the residual of one frame.
C34_Witness ==
    /\ pc = "idle"
    /\ run.op = "generateStreaming"
    /\ run.status = "ok"
    /\ run.chunkSizeFrames = 2
    /\ Len(run.chunks) = 2
    /\ run.chunks[1] = [frames |-> <<0, 1>>, site |-> "loop", isFinal |-> FALSE]
    /\ run.chunks[2] = [frames |-> <<2>>, site |-> "flush", isFinal |-> TRUE]

----------------------------------------------------------------------------
(* C35 *)

\* The groups of frames handed to the decode unit, one after the other
RECURSIVE Flatten(_)
Flatten(groups) == IF groups = <<>> THEN <<>> ELSE Head(groups) \o Flatten(Tail(groups))

\* C35: in a generateStreaming run during which cancelStreaming is not called, the
\* frames handed to the decode unit, invocation after invocation, are the frames
\* the loop made, in the order it made them, each once; while the run goes on
\* they are the frames made so far less the pending ones; and no invocation is
\* handed no frame or more than 15.
C35_EveryFrameDecodedOnce ==
    (run.op = "generateStreaming" /\ ~cancelRequested /\ run.failed = "") =>
        /\ \A g \in 1..Len(run.decoded) :
               Len(run.decoded[g]) >= 1 /\ Len(run.decoded[g]) <= DecodeBatch
        /\ Len(Flatten(run.decoded)) <= Len(run.allLatents)
        /\ Flatten(run.decoded) = SubSeq(run.allLatents, 1, Len(Flatten(run.decoded)))
        /\ pc \in {"loopHead", "mainStep", "flow", "flushHead"}
               => Flatten(run.decoded) \o run.pendingLatents = run.allLatents
        /\ (pc = "idle" /\ run.status = "ok") => Flatten(run.decoded) = run.allLatents

\* A run of 17 frames with chunkSizeFrames = 16 has returned: the decode unit
\* was handed 15 frames and 1 frame inside the loop, then the residual frame.
C35_Witness ==
    /\ pc = "idle"
    /\ run.op = "generateStreaming"
    /\ run.status = "ok"
    /\ ~cancelRequested
    /\ run.chunkSizeFrames = DecodeBatch + 1
    /\ Len(run.allLatents) = DecodeBatch + 2
    /\ [g \in 1..Len(run.decoded) |-> Len(run.decoded[g])] = <<DecodeBatch, 1, 1>>
    /\ Flatten(run.decoded) = run.allLatents

----------------------------------------------------------------------------
(* C36 *)

\* C36: generateStreaming clears the cancellation flag before its loop, so a
\* request made before the call (the one that cancelled the previous run among
\* them) does not cancel the run: while no request is made after the reset the
\* flag is clear, the loop is left by the stop rule or the bound only, and the
\* residual is delivered; a run is cancelled only by a request made after the
\* reset.
C36_StaleCancelCleared ==
    run.op = "generateStreaming" =>
        /\ (pc # "idle" /\ ~run.cancelCalled) => ~cancelRequested
        /\ run.exit = "cancel" => run.cancelCalled
        /\ (pc = "idle" /\ run.status = "ok" /\ ~run.cancelCalled) =>
               /\ run.exit \in {"eos", "max"}
               /\ Flatten(run.decoded) = run.allLatents
               /\ run.totalSamples = SamplesPerLatent * Len(run.allLatents)

\* A run called with the flag set has returned all its three frames, no request
\* having been made after its reset.
C36_Witness ==
    /\ pc = "idle"
    /\ run.op = "generateStreaming"
    /\ run.enableCancellation
    /\ run.flagAtCall
    /\ ~run.cancelCalled
    /\ run.status = "ok"
    /\ run.exit = "max"
    /\ Len(run.allLatents) = 3
    /\ run.totalSamples = 3 * SamplesPerLatent

----------------------------------------------------------------------------
(* C37 *)

\* C37: a generateStreaming call with an empty callback fails with "Callback
\* must be provided" before anything else happens: the flag keeps the value it
\* had, the error is the callback's even for a text the tokenizer rejects, no
\* state is initialised, no unit is invoked, no noise is drawn and nothing is
\* delivered.
C37_EmptyCallbackRejectedFirst ==
    [][(call' # call /\ call'.op = "generateStreaming" /\ ~call'.callback) =>
          /\ call'.status = "error"
          /\ call'.what = "Callback must be provided"
          /\ cancelRequested' = cancelRequested
          /\ run'.exit = "throw"
          /\ run'.stateInits = 0
          /\ run'.textConditionerCalls = 0
          /\ run'.arSteps = 0
          /\ run'.flowCalls = 0
          /\ run'.decodeCalls = 0
          /\ run'.frames = <<>>
          /\ run'.callbacks = <<>>
          /\ rng' = rng]_vars

\* A call with an empty callback and a blank text, made with the flag set, has
\* failed and the flag is still set.
C37_Witness ==
    /\ call.op = "generateStreaming"
    /\ ~call.callback
    /\ call.text \in BlankTexts
    /\ call.flagBefore
    /\ cancelRequested
    /\ call.status = "error"
    /\ call.what = "Callback must be provided"

----------------------------------------------------------------------------
(* C38 *)

\* C38: in the Node addon, whatever the sequence of close(), free(),
\* encodeVoice, encodeVoiceFromSamples, generate and finalizations,
\* pocket_tts_destroy is called at most once per engine handle and
\* pocket_tts_free_voice at most once per voice handle, no handle is passed to
\* the C API after that, and a call on a closed engine or with a freed Voice is
\* rejected with an error without reaching the C API.
C38_HandleLifecycle ==
    /\ \A h \in 1..Len(run.destroyed) : run.destroyed[h] <= 1
    /\ \A h \in 1..Len(run.freed) : run.freed[h] <= 1
    /\ run.misused = {}
    /\ (call.op \in {"encodeVoice", "encodeVoiceFromSamples", "generate"} /\ call.closed) =>
          /\ call.status = "error"
          /\ call.what = "PocketTTS instance already closed"
          /\ call.cApi = <<>>
    /\ (call.op = "generate" /\ ~call.closed /\ call.freedVoice) =>
          /\ call.status = "error"
          /\ call.what = "voice must be a live Voice handle"
          /\ call.cApi = <<>>

\* An engine closed by close() and later finalized, a Voice freed by free() and
\* later finalized, their handles destroyed and freed once, and the last
\* generate call, made with a freed Voice, rejected.
C38_Witness ==
    /\ \E e \in 1..Len(run.engines) :
          /\ run.engines[e].closeCalled
          /\ run.engines[e].js = "finalized"
    /\ \E h \in 1..Len(run.destroyed) : run.destroyed[h] = 1
    /\ \E v \in 1..Len(run.voices) :
          /\ run.voices[v].freeCalled
          /\ run.voices[v].js = "finalized"
    /\ \E h \in 1..Len(run.freed) : run.freed[h] = 1
    /\ call.op = "generate"
    /\ call.freedVoice
    /\ call.status = "error"

----------------------------------------------------------------------------
(* C39 *)

\* The native call of the enumeration has returned or thrown.
NativeCallOver == call.consumer # "none" /\ pc = "idle"

\* C39: for every GenerateStreamingAsync enumeration, once the native
\* generateStreaming call has returned or thrown the chunk collection is marked
\* complete, and the consumer's loop ends after the chunks delivered, whatever
\* the number of frames and the chunk size.
C39_AsyncStreamCompletes ==
    /\ [](NativeCallOver => BlockingCollection(run, pc).addingCompleted)
    /\ NativeCallOver ~> (call.consumer = "done")

\* The native call has returned its samples after two chunks of one frame, none
\* of them final; the consumer has taken both and waits for a further chunk of
\* a collection that is not marked complete.
C39_Witness ==
    /\ NativeCallOver
    /\ run.status = "ok"
    /\ run.chunkSizeFrames = 1
    /\ Len(run.chunks) = 2
    /\ run.ret = 2 * SamplesPerLatent
    /\ \A i \in 1..Len(run.chunks) : ~run.chunks[i].isFinal
    /\ call.consumer = "enumerating"
    /\ call.taken = 2
    /\ ~BlockingCollection(run, pc).addingCompleted
    /\ ~ENABLED AsyncNext

====
